---- MODULE Spec2Model ----
(***************************************************************************)
(* A model of rrs-terminal: the capability cache (src/lib/capability.ts),  *)
(* the transaction executor destroyBlock (src/lib/contract.ts) and the     *)
(* mining loop (mineOnce / startMining, second half of capability.ts).     *)
(*                                                                         *)
(* Time is the wall clock Date.now() in milliseconds.  The capability      *)
(* endpoint and the chain are the environment: every answer they can give  *)
(* is a nondeterministic choice from a small set.                          *)
(***************************************************************************)
EXTENDS Integers, Sequences, FiniteSets, TLC

VARIABLES
    capabilityCache,  \* capability.ts:15  CachedCapability | null
    clock,            \* Date.now(), milliseconds
    ticks,            \* how many times the clock has been advanced (bounded)
    issued,           \* the capability most recently issued by the endpoint: [nonce, budget], nonce 0 before any
    charged,          \* sum of the costs of the getCapability calls that returned that capability
    invalidated,      \* TRUE from a clearCapabilityCache until the next getCapability
    httpCalls,        \* number of POSTs made to the capability endpoint
    last,             \* what the most recent step did (call, cost, fetches, result)
    dpc,              \* where the destroyBlock call stands: idle, simulating, submitting, waiting, returned
    call,             \* the chain calls the current destroyBlock call has made, and what simulation threw
    result,           \* the DestroyResult the last destroyBlock call returned (NULL while it runs)
    destroys,         \* number of destroyBlock calls started
    proc,             \* the process of `rrs-terminal start`: where startCommand stands
    exit,             \* NULL while the process lives, then [code, by, error]
    validation,       \* what validateMiningSetup read from the chain (NULL before)
    mpc,              \* where the mining loop is suspended: top, fetching, caught, destroy, resync, balance, sleep, done
    wasRefresh,       \* mineOnce's local wasRefresh
    ctx,              \* the MinerContext (NULL before createMinerContext)
    batteryDepleted,  \* start.ts:101  set by the onBatteryDepleted callback
    pidFile,          \* ~/.megacube/rrs.pid: NULL when absent, else the pid written
    stateFile,        \* ~/.megacube/rrs.state.json: NULL when absent, else the RuntimeState written
    log,              \* counts of what the session did: calls made, callbacks invoked
    currentContainer, \* the container id mineOnce has picked (ctx.currentContainer)
    loc,              \* renderDashboard's loc: decomposeContainer of it (NULL before)
    other,            \* a second "rrs-terminal start" on the same ~/.megacube: none, validating, refused, running, exited
    networkConfig     \* start.ts:62  what fetchNetworkConfig returned (NULL before)

cacheVars == <<capabilityCache, clock, ticks, issued, charged, invalidated, httpCalls, last>>

minerVars ==
    <<proc, exit, validation, mpc, wasRefresh, ctx, batteryDepleted, pidFile, stateFile, log>>

gridVars == <<currentContainer, loc>>

startVars == <<other, networkConfig>>

-----------------------------------------------------------------------------
(* Bounds of the model *)

MaxBudget == 2
MaxCost == 2
MaxFetches == 2
MaxTicks == 2
MaxDestroys == 3
MaxIterations == 2
MaxShift == 50
MaxNear == 20
SampleStride == 9973

(* Program constants *)

EXPIRY_BUFFER_S == 30
MINE_DELAY_MS == 100   \* delay between mining attempts

(* Environment *)

StartClock == 1000 * 1000   \* the clock reads 1000 s when the process starts
TickSteps == {500, 69500}
TTLs == {20, 100}
Budgets == 0..MaxBudget
Costs == 0..MaxCost
HttpErrors == { [status |-> 403, body |-> "capability quota exceeded"],
                [status |-> 500, body |-> "Internal Server Error"] }

NULL == [null |-> TRUE]

WALLET == "0xWallet"
CAP_MODE_MINE == 1

-----------------------------------------------------------------------------
(* capability.ts: the capability cache *)

\* Math.floor(Date.now() / 1000)
NowSeconds == clock \div 1000

\* The endpoint's JSON answer to a successful POST /capability.
CapabilityResponses ==
    { [capability |-> [wallet |-> WALLET, allowedModes |-> CAP_MODE_MINE,
                       nonce |-> issued.nonce + 1, issuedAt |-> NowSeconds,
                       expiresAt |-> NowSeconds + ttl, budget |-> b],
       signature |-> "0xSig"] : ttl \in TTLs, b \in Budgets }

parseCapabilityResponse(response) ==
    [capability |-> [wallet |-> response.capability.wallet,
                     allowedModes |-> response.capability.allowedModes,
                     nonce |-> response.capability.nonce,
                     issuedAt |-> response.capability.issuedAt,
                     expiresAt |-> response.capability.expiresAt,
                     budget |-> response.capability.budget],
     signature |-> response.signature]

\* Mutant: the budget test is off by one (<= for <).
isCacheValid_BudgetOffByOne(cost) ==
    IF capabilityCache = NULL THEN FALSE
    ELSE LET now == NowSeconds
             expiresAt == capabilityCache.bundle.capability.expiresAt
         IN  IF now >= expiresAt - EXPIRY_BUFFER_S THEN FALSE
             ELSE IF capabilityCache.remainingBudget <= cost THEN FALSE
             ELSE TRUE

\* Mutant: the expiry test forgets the 30 s buffer.
isCacheValid_NoBuffer(cost) ==
    IF capabilityCache = NULL THEN FALSE
    ELSE LET now == NowSeconds
             expiresAt == capabilityCache.bundle.capability.expiresAt
         IN  IF now >= expiresAt THEN FALSE
             ELSE IF capabilityCache.remainingBudget < cost THEN FALSE
             ELSE TRUE

\* Mutant: the budget test is missing.
isCacheValid_NoBudgetCheck(cost) ==
    IF capabilityCache = NULL THEN FALSE
    ELSE LET now == NowSeconds
             expiresAt == capabilityCache.bundle.capability.expiresAt
         IN  IF now >= expiresAt - EXPIRY_BUFFER_S THEN FALSE
             ELSE TRUE

isCacheValid(cost) ==
    IF capabilityCache = NULL THEN FALSE
    ELSE LET now == NowSeconds
             expiresAt == capabilityCache.bundle.capability.expiresAt
         IN  IF now >= expiresAt - EXPIRY_BUFFER_S THEN FALSE
             ELSE IF capabilityCache.remainingBudget < cost THEN FALSE
             ELSE TRUE

\* Every outcome of one POST: a parsed bundle, or the error thrown for a
\* response that is not ok.
fetchCapability ==
    { [ok |-> TRUE, bundle |-> parseCapabilityResponse(r)] : r \in CapabilityResponses }
    \cup
    { [ok |-> FALSE,
       error |-> "Identity validation failed: " \o ToString(e.status) \o " - " \o e.body] :
         e \in HttpErrors }

\* Mutant: a cache hit adds the cost to the local budget.
getCapabilityHit_Refund(cost) ==
    /\ isCacheValid(cost)
    /\ capabilityCache' = [capabilityCache EXCEPT !.remainingBudget = @ + cost]
    /\ issued' = issued
    /\ charged' = charged + cost
    /\ httpCalls' = httpCalls
    /\ invalidated' = FALSE
    /\ last' = [op |-> "getCapability", cost |-> cost, fetches |-> 0, ok |-> TRUE,
                ret |-> capabilityCache.bundle, afterClear |-> invalidated]

\* getCapability(cost): the state change and the value returned (ret) or the
\* error thrown (ok = FALSE); fetches is the number of POSTs this call made.
getCapabilityHit(cost) ==
    /\ isCacheValid(cost)
    /\ capabilityCache' = [capabilityCache EXCEPT !.remainingBudget = @ - cost]
    /\ issued' = issued
    /\ charged' = charged + cost
    /\ httpCalls' = httpCalls
    /\ invalidated' = FALSE
    /\ last' = [op |-> "getCapability", cost |-> cost, fetches |-> 0, ok |-> TRUE,
                ret |-> capabilityCache.bundle, afterClear |-> invalidated]

\* Mutant: the fresh entry is cached with its whole budget, the cost is not charged.
getCapabilityFetch_NoCharge(cost) ==
    /\ ~isCacheValid(cost)
    /\ httpCalls' = httpCalls + 1
    /\ invalidated' = FALSE
    /\ \E f \in fetchCapability :
         IF f.ok
         THEN /\ capabilityCache' = [bundle |-> f.bundle,
                                     remainingBudget |-> f.bundle.capability.budget,
                                     fetchedAt |-> clock]
              /\ issued' = [nonce |-> f.bundle.capability.nonce,
                             budget |-> f.bundle.capability.budget]
              /\ charged' = cost
              /\ last' = [op |-> "getCapability", cost |-> cost, fetches |-> 1,
                          ok |-> TRUE, ret |-> f.bundle, afterClear |-> invalidated]
         ELSE /\ UNCHANGED <<capabilityCache, issued, charged>>
              /\ last' = [op |-> "getCapability", cost |-> cost, fetches |-> 1,
                          ok |-> FALSE, ret |-> [error |-> f.error],
                          afterClear |-> invalidated]

\* Mutant: the fresh entry is validated like a cached one before it is charged,
\* and fetched a second time when it is not valid for the cost.
getCapabilityFetch_Revalidate(cost) ==
    /\ ~isCacheValid(cost)
    /\ invalidated' = FALSE
    /\ \E f \in fetchCapability :
         IF f.ok
         THEN LET n == IF /\ NowSeconds < f.bundle.capability.expiresAt - EXPIRY_BUFFER_S
                          /\ f.bundle.capability.budget >= cost
                       THEN 1 ELSE 2
              IN  /\ capabilityCache' = [bundle |-> f.bundle,
                                         remainingBudget |-> f.bundle.capability.budget - cost,
                                         fetchedAt |-> clock]
                  /\ issued' = [nonce |-> f.bundle.capability.nonce,
                                 budget |-> f.bundle.capability.budget]
                  /\ charged' = cost
                  /\ httpCalls' = httpCalls + n
                  /\ last' = [op |-> "getCapability", cost |-> cost, fetches |-> n,
                              ok |-> TRUE, ret |-> f.bundle, afterClear |-> invalidated]
         ELSE /\ UNCHANGED <<capabilityCache, issued, charged>>
              /\ httpCalls' = httpCalls + 1
              /\ last' = [op |-> "getCapability", cost |-> cost, fetches |-> 1,
                          ok |-> FALSE, ret |-> [error |-> f.error],
                          afterClear |-> invalidated]

\* Mutant: a failed fetch drops the entry that was not valid for the cost.
getCapabilityFetch_DropsOnFailure(cost) ==
    /\ ~isCacheValid(cost)
    /\ httpCalls' = httpCalls + 1
    /\ invalidated' = FALSE
    /\ \E f \in fetchCapability :
         IF f.ok
         THEN /\ capabilityCache' = [bundle |-> f.bundle,
                                     remainingBudget |-> f.bundle.capability.budget - cost,
                                     fetchedAt |-> clock]
              /\ issued' = [nonce |-> f.bundle.capability.nonce,
                             budget |-> f.bundle.capability.budget]
              /\ charged' = cost
              /\ last' = [op |-> "getCapability", cost |-> cost, fetches |-> 1,
                          ok |-> TRUE, ret |-> f.bundle, afterClear |-> invalidated]
         ELSE /\ capabilityCache' = NULL
              /\ UNCHANGED <<issued, charged>>
              /\ last' = [op |-> "getCapability", cost |-> cost, fetches |-> 1,
                          ok |-> FALSE, ret |-> [error |-> f.error],
                          afterClear |-> invalidated]

getCapabilityFetch(cost) ==
    /\ ~isCacheValid(cost)
    /\ httpCalls' = httpCalls + 1
    /\ invalidated' = FALSE
    /\ \E f \in fetchCapability :
         IF f.ok
         THEN /\ capabilityCache' = [bundle |-> f.bundle,
                                     remainingBudget |-> f.bundle.capability.budget - cost,
                                     fetchedAt |-> clock]
              /\ issued' = [nonce |-> f.bundle.capability.nonce,
                             budget |-> f.bundle.capability.budget]
              /\ charged' = cost
              /\ last' = [op |-> "getCapability", cost |-> cost, fetches |-> 1,
                          ok |-> TRUE, ret |-> f.bundle, afterClear |-> invalidated]
         ELSE /\ UNCHANGED <<capabilityCache, issued, charged>>
              /\ last' = [op |-> "getCapability", cost |-> cost, fetches |-> 1,
                          ok |-> FALSE, ret |-> [error |-> f.error],
                          afterClear |-> invalidated]

getCapability(cost) ==
    \/ getCapabilityHit(cost)
    \/ getCapabilityFetch(cost)

getRemainingBudget ==
    IF capabilityCache = NULL THEN 0 ELSE capabilityCache.remainingBudget

\* Mutant: the entry is kept and only its local budget is zeroed.
clearCapabilityCache_ZeroBudget ==
    /\ capabilityCache' = IF capabilityCache = NULL THEN NULL
                          ELSE [capabilityCache EXCEPT !.remainingBudget = 0]
    /\ invalidated' = TRUE
    /\ UNCHANGED <<issued, charged, httpCalls>>
    /\ last' = [op |-> "clearCapabilityCache", cost |-> 0, fetches |-> 0, ok |-> TRUE,
                ret |-> NULL]

clearCapabilityCache ==
    /\ capabilityCache' = NULL
    /\ invalidated' = TRUE
    /\ UNCHANGED <<issued, charged, httpCalls>>
    /\ last' = [op |-> "clearCapabilityCache", cost |-> 0, fetches |-> 0, ok |-> TRUE,
                ret |-> NULL]

\* Mutant: the cost is not passed on (the default cost is checked).
needsCapabilityRefresh_IgnoresCost(cost) == ~isCacheValid(1)

needsCapabilityRefresh(cost) == ~isCacheValid(cost)

-----------------------------------------------------------------------------
(* JavaScript strings *)

Some(v) == [value |-> v]

CharAt(s, i) == SubSeq(s, i, i)

UpperCaseLetters == "ABCDEFGHIJKLMNOPQRSTUVWXYZ"
LowerCaseLetters == "abcdefghijklmnopqrstuvwxyz"

\* The lower-case letter of every upper-case letter.
lowerTable ==
    [c \in { CharAt(UpperCaseLetters, i) : i \in 1..Len(UpperCaseLetters) } |->
        CharAt(LowerCaseLetters,
               CHOOSE i \in 1..Len(UpperCaseLetters) : CharAt(UpperCaseLetters, i) = c)]

lowerChar(c) == IF c \in DOMAIN lowerTable THEN lowerTable[c] ELSE c

\* s.toLowerCase(), character by character (by halves: the depth stays small)
RECURSIVE toLowerCase(_)
toLowerCase(s) ==
    IF Len(s) = 0 THEN ""
    ELSE IF Len(s) = 1 THEN lowerChar(s)
    ELSE LET h == Len(s) \div 2
         IN  toLowerCase(SubSeq(s, 1, h)) \o toLowerCase(SubSeq(s, h + 1, Len(s)))

\* s.includes(sub)
includes(s, sub) ==
    \E i \in 0..(Len(s) - Len(sub)) : SubSeq(s, i + 1, i + Len(sub)) = sub

\* s.substring(0, n)
substring0(s, n) == SubSeq(s, 1, IF n < Len(s) THEN n ELSE Len(s))

-----------------------------------------------------------------------------
(* contract.ts: destroyBlock *)

destroyVars == <<dpc, call, result, destroys>>

\* Messages of the errors simulateContract, writeContract and
\* waitForTransactionReceipt can throw.
ChainErrors ==
    { "execution reverted: Already destroyed",
      "Execution Reverted: ALREADY DESTROYED (capability expired)",
      "execution reverted: Capability Expired; tile Already Destroyed",
      "execution reverted: Tile already mined",
      "execution reverted: Capability expired",
      "execution reverted: Capability exhausted",
      "execution reverted: Capability budget too low",
      "execution reverted: Not authorized",
      "execution reverted: Invalid capability signature",
      "execution reverted: Battery depleted - shift ended",
      "execution reverted: Shift ended",
      "execution reverted: Invalid container",
      "execution reverted: Invalid tile",
      "execution reverted: Insufficient jackpot fee",
      "The contract function \"destroyBlock\" reverted with reason: \"Paused\"",
      "The contract function \"destroyBlock\" reverted with reason: \"Block already claimed\"",
      "Timed out while waiting for transaction with hash \"0xTx\" to be confirmed.",
      "HTTP request failed. URL: https://rpc.example/ Request body: {\"method\":\"eth_call\"} Details: fetch failed; the request to the node did not complete and no response was received before the connection was closed by the peer." }

TxHash(n) == "0xTx" \o ToString(n)

\* DestroyResult: optional fields that are not set are NULL.
DestroyResult(success, txHash, error, alreadyDestroyed) ==
    [success |-> success, txHash |-> txHash, error |-> error,
     alreadyDestroyed |-> alreadyDestroyed]

\* The catch around simulateContract: the result returned for a simulation error.
destroyBlock_simCatch(simMsg) ==
    LET lowerSim == toLowerCase(simMsg) IN
    IF includes(lowerSim, "already destroyed")
    THEN DestroyResult(FALSE, NULL, Some("Already destroyed"), Some(TRUE))
    ELSE IF includes(lowerSim, "capability expired")
    THEN DestroyResult(FALSE, NULL, Some("Capability expired"), NULL)
    ELSE IF includes(lowerSim, "capability exhausted")
    THEN DestroyResult(FALSE, NULL, Some("Capability exhausted (on-chain)"), NULL)
    ELSE IF includes(lowerSim, "budget too low")
    THEN DestroyResult(FALSE, NULL, Some("Capability budget too low (cap.budget < cost)"), NULL)
    ELSE IF includes(lowerSim, "not authorized")
    THEN DestroyResult(FALSE, NULL, Some("Not authorized for license"), NULL)
    ELSE IF includes(lowerSim, "invalid capability signature")
    THEN DestroyResult(FALSE, NULL, Some("Invalid capability signature"), NULL)
    ELSE IF includes(lowerSim, "battery depleted")
    THEN DestroyResult(FALSE, NULL, Some("Battery depleted - shift ended"), NULL)
    ELSE DestroyResult(FALSE, NULL, Some("Sim: " \o substring0(simMsg, 150)), NULL)

\* errorMessage.match(/reverted with reason[:\s]+"?([^"]+)"?/i): the first
\* group of the leftmost match, or NULL.
RevertLiteral == "reverted with reason"

IsSeparator(c) == c \in {":", " ", "\t", "\n"}

\* The first position >= p that is in stops, or Len(s) + 1.
FirstStop(s, p, stops) ==
    IF stops = {} THEN (IF p > Len(s) + 1 THEN p ELSE Len(s) + 1)
    ELSE CHOOSE j \in stops : \A k \in stops : j <= k

\* Length of the longest run of separators, of characters other than the quote,
\* that starts at position p.
SeparatorRun(s, p) ==
    FirstStop(s, p, { j \in p..Len(s) : ~IsSeparator(CharAt(s, j)) }) - p

NonQuoteRun(s, p) ==
    FirstStop(s, p, { j \in p..Len(s) : CharAt(s, j) = "\"" }) - p

\* The match that starts at position i, where the literal stands: the
\* separators are taken greedily, then the optional quote, then the group; when
\* that fails the last separator is given back and starts the group.
RevertMatchAt(s, i) ==
    LET p == i + Len(RevertLiteral)
        k == SeparatorRun(s, p)
        q == p + k
    IN  IF k = 0 THEN NULL
        ELSE IF q <= Len(s) /\ CharAt(s, q) = "\"" /\ NonQuoteRun(s, q + 1) > 0
        THEN Some(SubSeq(s, q + 1, q + NonQuoteRun(s, q + 1)))
        ELSE IF NonQuoteRun(s, q) > 0
        THEN Some(SubSeq(s, q, q + NonQuoteRun(s, q) - 1))
        ELSE IF k >= 2
        THEN Some(SubSeq(s, q - 1, q - 2 + NonQuoteRun(s, q - 1)))
        ELSE NULL

revertMatch(errorMessage) ==
    LET lower == toLowerCase(errorMessage)
        starts == { i \in 1..(Len(errorMessage) - Len(RevertLiteral) + 1) :
                      /\ SubSeq(lower, i, i + Len(RevertLiteral) - 1) = RevertLiteral
                      /\ RevertMatchAt(errorMessage, i) # NULL }
    IN  IF starts = {} THEN NULL
        ELSE RevertMatchAt(errorMessage, CHOOSE i \in starts : \A j \in starts : i <= j)

\* Mutant: the outer catch tries "capability expired" before "already destroyed".
destroyBlock_catch_ExpiredFirst(errorMessage) ==
    LET lowerError == toLowerCase(errorMessage) IN
    IF includes(lowerError, "capability expired")
    THEN DestroyResult(FALSE, NULL, Some("Capability expired"), NULL)
    ELSE IF includes(lowerError, "already destroyed") \/ includes(lowerError, "tile already")
    THEN DestroyResult(FALSE, NULL, Some("Already destroyed"), Some(TRUE))
    ELSE DestroyResult(FALSE, NULL, Some(errorMessage), NULL)

\* The outer catch: the result returned when writeContract or
\* waitForTransactionReceipt throws.
destroyBlock_catch(errorMessage) ==
    LET lowerError == toLowerCase(errorMessage) IN
    IF includes(lowerError, "already destroyed") \/ includes(lowerError, "tile already")
    THEN DestroyResult(FALSE, NULL, Some("Already destroyed"), Some(TRUE))
    ELSE IF includes(lowerError, "capability expired")
    THEN DestroyResult(FALSE, NULL, Some("Capability expired"), NULL)
    ELSE IF includes(lowerError, "capability exhausted") \/ includes(lowerError, "budget")
    THEN DestroyResult(FALSE, NULL, Some("Capability budget exhausted"), NULL)
    ELSE IF includes(lowerError, "not authorized")
    THEN DestroyResult(FALSE, NULL, Some("Not authorized for drone"), NULL)
    ELSE IF includes(lowerError, "invalid container")
    THEN DestroyResult(FALSE, NULL, Some("Invalid container ID"), NULL)
    ELSE IF includes(lowerError, "invalid tile")
    THEN DestroyResult(FALSE, NULL, Some("Invalid tile ID"), NULL)
    ELSE IF includes(lowerError, "jackpot fee")
    THEN DestroyResult(FALSE, NULL, Some("Jackpot fee too low"), NULL)
    ELSE LET m == revertMatch(errorMessage) IN
         IF m # NULL
         THEN IF includes(toLowerCase(m.value), "already")
              THEN DestroyResult(FALSE, NULL, Some(m.value), Some(TRUE))
              ELSE DestroyResult(FALSE, NULL, Some(m.value), NULL)
         ELSE DestroyResult(FALSE, NULL, Some(errorMessage), NULL)

\* What one call of destroyBlock has done so far: the chain calls it made, the
\* error caught around simulateContract (simError) and by the outer catch (error).
NoCall ==
    [simulated |-> 0, submitted |-> 0, awaited |-> 0, simError |-> NULL, hash |-> NULL,
     receipt |-> NULL, error |-> NULL]

\* destroyBlock is entered: cap is built and simulateContract is called.
destroyBlock_enter ==
    /\ dpc \in {"idle", "returned"}
    /\ destroys' = destroys + 1
    /\ dpc' = "simulating"
    /\ call' = [NoCall EXCEPT !.simulated = 1]
    /\ result' = NULL

\* Mutant: the fallback of the simulation catch does not return, and control
\* reaches writeContract.
destroyBlock_simThrows_FallsThrough(simMsg) ==
    /\ destroys' = destroys
    /\ IF includes(destroyBlock_simCatch(simMsg).error.value, "Sim: ")
       THEN /\ call' = [call EXCEPT !.simError = Some(simMsg), !.submitted = @ + 1]
            /\ dpc' = "submitting"
            /\ result' = result
       ELSE /\ call' = [call EXCEPT !.simError = Some(simMsg)]
            /\ dpc' = "returned"
            /\ result' = destroyBlock_simCatch(simMsg)

\* simulateContract throws: the catch classifies the message and returns.
destroyBlock_simThrows(simMsg) ==
    /\ destroys' = destroys
    /\ call' = [call EXCEPT !.simError = Some(simMsg)]
    /\ dpc' = "returned"
    /\ result' = destroyBlock_simCatch(simMsg)

\* simulateContract settles: on success writeContract is called.  errors are
\* the messages of the errors the chain can answer with.
destroyBlock_simulated(errors) ==
    /\ dpc = "simulating"
    /\ \/ /\ dpc' = "submitting"
          /\ call' = [call EXCEPT !.submitted = @ + 1]
          /\ UNCHANGED <<result, destroys>>
       \/ \E simMsg \in errors : destroyBlock_simThrows(simMsg)

\* writeContract settles: with the hash waitForTransactionReceipt is called.
destroyBlock_written(errors) ==
    /\ dpc = "submitting"
    /\ destroys' = destroys
    /\ \/ /\ dpc' = "waiting"
          /\ call' = [call EXCEPT !.hash = Some(TxHash(destroys)), !.awaited = @ + 1]
          /\ result' = result
       \/ \E errorMessage \in errors :
            /\ dpc' = "returned"
            /\ call' = [call EXCEPT !.error = Some(errorMessage)]
            /\ result' = destroyBlock_catch(errorMessage)

\* Mutant: the result for a reverted receipt does not carry the hash.
destroyBlock_onReceipt_NoHash(status, hash) ==
    IF status = "success"
    THEN DestroyResult(TRUE, hash, NULL, NULL)
    ELSE DestroyResult(FALSE, NULL, Some("Transaction reverted on-chain"), NULL)

\* The result returned for the receipt of the transaction hash.
destroyBlock_onReceipt(status, hash) ==
    IF status = "success"
    THEN DestroyResult(TRUE, hash, NULL, NULL)
    ELSE DestroyResult(FALSE, hash, Some("Transaction reverted on-chain"), NULL)

\* waitForTransactionReceipt settles: a receipt, or an error (the 30 s timeout).
destroyBlock_receipt(errors) ==
    /\ dpc = "waiting"
    /\ destroys' = destroys
    /\ dpc' = "returned"
    /\ \/ \E status \in {"success", "reverted"} :
            /\ call' = [call EXCEPT !.receipt = Some(status)]
            /\ result' = destroyBlock_onReceipt(status, call.hash)
       \/ \E errorMessage \in errors :
            /\ call' = [call EXCEPT !.error = Some(errorMessage)]
            /\ result' = destroyBlock_catch(errorMessage)

DestroyInit ==
    /\ dpc = "idle"
    /\ call = NoCall
    /\ result = NULL
    /\ destroys = 0

-----------------------------------------------------------------------------
(* miner (second half of capability.ts), config.ts and commands/start.ts:   *)
(* the process of `rrs-terminal start`.  JavaScript runs one turn at a time: *)
(* an action is the code that runs between two awaits of network or timer.   *)
(* The grid and the balances shown on the dashboard are not modelled.        *)

PID == 4242   \* process.pid

\* What getLicenseStatus can answer.
LicenseStatuses == { [currentBattery |-> b, maxBattery |-> 30] : b \in {0, 1, 30} }

\* What the chain reads of validateMiningSetup can answer: an error thrown by
\* one of them, or the balance, the authorization and the license status.
ChainReads ==
    { [throws |-> Some("HTTP request failed."), balance |-> 0, authorized |-> FALSE,
       status |-> [currentBattery |-> 0, maxBattery |-> 30]] }
    \cup
    { [throws |-> NULL, balance |-> b, authorized |-> a, status |-> s] :
        b \in {0, 1}, a \in BOOLEAN, s \in LicenseStatuses }

\* Errors of writeFileSync.
FsErrors == { "ENOSPC: no space left on device, write" }

createInitialStats ==
    [blocksDestroyed |-> 0, blocksAlreadyDestroyed |-> 0, errors |-> 0,
     startTime |-> clock, capabilityRefreshes |-> 0]

createMinerContext(currentBattery, maxBattery, callbacks) ==
    [stats |-> createInitialStats, running |-> FALSE, callbacks |-> callbacks,
     lastError |-> "",
     currentBattery |-> currentBattery, maxBattery |-> maxBattery,
     lastBatteryRefresh |-> clock]

NoLog ==
    [iterations |-> 0, outcome |-> "none", resyncs |-> 0, resyncFailures |-> 0,
     balanceRefreshes |-> 0, saves |-> 0, onBatteryDepleted |-> 0, onError |-> 0,
     fetched |-> 0, nonce |-> 0, rejected |-> {}, report |-> "none", slept |-> 0]

Exit(code, by, error) == [code |-> code, by |-> by, error |-> error]

\* Mutant: the battery of the license is not checked.
validateMiningSetup_checks_NoBatteryCheck(reads) ==
    IF reads.throws # NULL
    THEN [valid |-> FALSE, error |-> reads.throws.value]
    ELSE IF reads.balance = 0
    THEN [valid |-> FALSE,
          error |-> "Session wallet " \o WALLET \o " has no ETH. Fund it with ETH for gas."]
    ELSE IF ~reads.authorized
    THEN [valid |-> FALSE,
          error |-> "Session wallet " \o WALLET
                    \o " is not authorized for drone #1. Set session key on drone first."]
    ELSE NULL

\* validateMiningSetup up to the capability check: the result it returns
\* early, or NULL when it goes on.
validateMiningSetup_checks(reads) ==
    IF reads.throws # NULL
    THEN [valid |-> FALSE, error |-> reads.throws.value]
    ELSE IF reads.balance = 0
    THEN [valid |-> FALSE,
          error |-> "Session wallet " \o WALLET \o " has no ETH. Fund it with ETH for gas."]
    ELSE IF ~reads.authorized
    THEN [valid |-> FALSE,
          error |-> "Session wallet " \o WALLET
                    \o " is not authorized for drone #1. Set session key on drone first."]
    ELSE IF reads.status.currentBattery = 0
    THEN [valid |-> FALSE, error |-> "License battery depleted. Wait for next shift."]
    ELSE NULL

\* startCommand: validation is not valid: printError, process.exit(1).
startCommand_invalid(error) ==
    /\ proc' = "exited"
    /\ exit' = Exit(1, "validation", Some(error))
    /\ UNCHANGED <<mpc, wasRefresh, ctx, batteryDepleted, pidFile, stateFile, log>>

\* startCommand calls validateMiningSetup: the chain reads settle.
validateMiningSetup_reads ==
    /\ proc = "validating"
    /\ \E reads \in ChainReads :
         LET early == validateMiningSetup_checks(reads) IN
         IF early # NULL
         THEN /\ startCommand_invalid(early.error)
              /\ validation' = reads
         ELSE /\ proc' = "validatingCapability"
              /\ validation' = reads
              /\ UNCHANGED <<exit, mpc, wasRefresh, ctx, batteryDepleted, pidFile,
                             stateFile, log>>
    /\ UNCHANGED <<cacheVars, destroyVars, gridVars, startVars>>

\* validateMiningSetup: await getCapability(networkConfig, wallet, droneId, 0).
validateMiningSetup_capability ==
    /\ proc = "validatingCapability"
    /\ getCapability(0)
    /\ IF last'.ok
       THEN /\ proc' = "validated"
            /\ UNCHANGED <<exit, mpc, wasRefresh, ctx, batteryDepleted, pidFile,
                           stateFile, log>>
       ELSE startCommand_invalid(last'.ret.error)
    /\ UNCHANGED <<clock, ticks, validation, gridVars, startVars, destroyVars>>

\* validateMiningSetup clears the cache and returns valid; startCommand writes
\* the PID file, clears the runtime state, creates the context, registers the
\* signal handlers and calls startMining, which sets running.
\* Mutant: validateMiningSetup keeps the capability it has fetched.
startMining_with_KeepsCapability(callbacks) ==
    /\ proc = "validated"
    /\ UNCHANGED <<capabilityCache, issued, charged, invalidated, httpCalls, last>>
    /\ pidFile' = Some(PID)
    /\ stateFile' = NULL
    /\ batteryDepleted' = FALSE
    /\ ctx' = [createMinerContext(validation.status.currentBattery,
                                  validation.status.maxBattery, callbacks)
                 EXCEPT !.running = TRUE]
    /\ proc' = "mining"
    /\ mpc' = "top"
    /\ UNCHANGED <<clock, ticks, exit, validation, gridVars, startVars, wasRefresh, log, destroyVars>>

\* callbacks stands for the MinerCallbacks passed to createMinerContext: the
\* names of those that throw when they are called.
startMining_with(callbacks) ==
    /\ proc = "validated"
    /\ clearCapabilityCache
    /\ pidFile' = Some(PID)
    /\ stateFile' = NULL
    /\ batteryDepleted' = FALSE
    /\ ctx' = [createMinerContext(validation.status.currentBattery,
                                  validation.status.maxBattery, callbacks)
                 EXCEPT !.running = TRUE]
    /\ proc' = "mining"
    /\ mpc' = "top"
    /\ UNCHANGED <<clock, ticks, exit, validation, gridVars, startVars, wasRefresh, log, destroyVars>>

\* startCommand registers onBatteryDepleted only, which sets a flag.
startCommand_startMining == startMining_with({})

\* Mutant: stopMining leaves running as it is.
stopMining_KeepsRunning(c) == c

\* stopMining(ctx, batteryDepleted): the context it leaves.
stopMining(c) == [c EXCEPT !.running = FALSE]

\* Mutant: the report never is the depleted one.
stopMining_report_AlwaysGeneric(depleted) == "stopped"

\* stopMining(ctx, batteryDepleted): the report it prints, "Shift ended -
\* battery depleted" or "Mining session stopped".
stopMining_report(depleted) == IF depleted THEN "depleted" ELSE "stopped"

\* startMining after mineOnce has returned: renderDashboard, the periodic
\* saveRuntimeState, then sleep(MINE_DELAY_MS).  writeFileSync can throw: the
\* error leaves startMining and is caught by startCommand, which removes the
\* PID file and calls process.exit(1).  The log adds up the delays asked of sleep.
startMining_saveDue(c) == c.stats.blocksDestroyed % 10 = 0

\* Mutant: the loop sleeps only after it has saved.
startMining_afterMineOnce_NoDelay(c, l) ==
    IF startMining_saveDue(c)
    THEN \/ /\ stateFile' = Some([pid |-> PID, startTime |-> c.stats.startTime,
                                  stats |-> c.stats])
            /\ log' = [l EXCEPT !.saves = @ + 1, !.slept = @ + MINE_DELAY_MS]
            /\ ctx' = c
            /\ mpc' = "sleep"
            /\ UNCHANGED <<pidFile, proc, exit>>
         \/ \E e \in FsErrors :
              /\ log' = [l EXCEPT !.saves = @ + 1]
              /\ ctx' = c
              /\ mpc' = "done"
              /\ pidFile' = NULL
              /\ proc' = "exited"
              /\ exit' = Exit(1, "miningError", Some(e))
              /\ stateFile' = stateFile
    ELSE /\ log' = l
         /\ ctx' = c
         /\ mpc' = "top"
         /\ UNCHANGED <<stateFile, pidFile, proc, exit>>

startMining_afterMineOnce(c, l) ==
    IF startMining_saveDue(c)
    THEN \/ /\ stateFile' = Some([pid |-> PID, startTime |-> c.stats.startTime,
                                  stats |-> c.stats])
            /\ log' = [l EXCEPT !.saves = @ + 1, !.slept = @ + MINE_DELAY_MS]
            /\ ctx' = c
            /\ mpc' = "sleep"
            /\ UNCHANGED <<pidFile, proc, exit>>
         \/ \E e \in FsErrors :
              /\ log' = [l EXCEPT !.saves = @ + 1]
              /\ ctx' = c
              /\ mpc' = "done"
              /\ pidFile' = NULL
              /\ proc' = "exited"
              /\ exit' = Exit(1, "miningError", Some(e))
              /\ stateFile' = stateFile
    ELSE /\ log' = [l EXCEPT !.slept = @ + MINE_DELAY_MS]
         /\ ctx' = c
         /\ mpc' = "sleep"
         /\ UNCHANGED <<stateFile, pidFile, proc, exit>>

\* mineOnce after its try / catch: the periodic balance refresh, then onStats.
mineOnce_balanceDue(c) == (c.stats.blocksDestroyed + c.stats.errors) % 5 = 0

mineOnce_tail(c, l) ==
    IF mineOnce_balanceDue(c)
    THEN /\ mpc' = "balance"
         /\ ctx' = c
         /\ log' = [l EXCEPT !.balanceRefreshes = @ + 1]
         /\ UNCHANGED <<stateFile, pidFile, proc, exit>>
    ELSE startMining_afterMineOnce(c, l)

\* Mutant: the battery estimate is decremented without the test.
mineOnce_onSuccess_NoFloor(c) ==
    [c EXCEPT !.stats.blocksDestroyed = @ + 1, !.currentBattery = @ - 1]

\* Mutant: a success clears the error count.
mineOnce_onSuccess_ResetsErrors(c) ==
    [c EXCEPT !.stats.blocksDestroyed = @ + 1,
              !.stats.errors = 0,
              !.currentBattery = IF @ > 0 THEN @ - 1 ELSE @]

\* Mutant: an empty estimate is recharged to the maximum.
mineOnce_onSuccess_Recharge(c) ==
    [c EXCEPT !.stats.blocksDestroyed = @ + 1,
              !.currentBattery = IF @ > 0 THEN @ - 1 ELSE c.maxBattery]

\* The success branch: the count, and the local battery estimate.
mineOnce_onSuccess(c) ==
    [c EXCEPT !.stats.blocksDestroyed = @ + 1,
              !.currentBattery = IF @ > 0 THEN @ - 1 ELSE @]

\* Mutant: an already destroyed block is counted as an error too.
mineOnce_onAlreadyDestroyed_CountsError(c) ==
    [c EXCEPT !.stats.blocksAlreadyDestroyed = @ + 1, !.stats.errors = @ + 1,
              !.lastError = "Already destroyed"]

\* The alreadyDestroyed branch.
mineOnce_onAlreadyDestroyed(c) == [c EXCEPT !.stats.blocksAlreadyDestroyed = @ + 1]

\* Mutant: the resync is due every 20 blocks.
mineOnce_resyncDue_EveryTwenty(c) == c.stats.blocksDestroyed % 20 = 0

mineOnce_resyncDue(c) == c.stats.blocksDestroyed % 25 = 0

\* Mutant: the word 'capability' is not looked for.
mineOnce_isCapabilityError_BudgetOnly(lowerError) ==
    \/ includes(lowerError, "budget")
    \/ includes(lowerError, "exhausted")

mineOnce_isCapabilityError(lowerError) ==
    \/ includes(lowerError, "capability")
    \/ includes(lowerError, "budget")
    \/ includes(lowerError, "exhausted")

\* Mutant: the depletion test looks for another wording.
mineOnce_isDepleted_OtherWording(lowerError) == includes(lowerError, "battery empty")

mineOnce_isDepleted(lowerError) ==
    \/ includes(lowerError, "battery depleted")
    \/ includes(lowerError, "shift ended")

\* Mutant: an exception ends the session.
mineOnce_onException_Stops(c, errorMessage) ==
    [c EXCEPT !.stats.errors = @ + 1, !.lastError = errorMessage, !.running = FALSE]

\* The catch block: the count and the last error.
mineOnce_onException(c, errorMessage) ==
    [c EXCEPT !.stats.errors = @ + 1, !.lastError = errorMessage]

\* The message of the error a callback of the caller throws.
CallbackError(name) == name \o " failed"

\* A callback of the try block throws after the count c' was made: control
\* is in the catch block, which counts an error and calls onError.
mineOnce_callbackThrows(c, name) ==
    /\ UNCHANGED <<capabilityCache, issued, charged, invalidated, httpCalls, last,
                   batteryDepleted>>
    /\ mineOnce_tail(mineOnce_onException(c, CallbackError(name)),
                     [log EXCEPT !.outcome = "exception", !.onError = @ + 1])

\* mineOnce once destroyBlock has returned r.
mineOnce_result(r) ==
    /\ UNCHANGED <<clock, ticks, validation, gridVars, startVars, wasRefresh>>
    /\ IF r.success /\ "onBlockDestroyed" \in ctx.callbacks
       THEN mineOnce_callbackThrows([ctx EXCEPT !.stats.blocksDestroyed = @ + 1],
                                    "onBlockDestroyed")
       ELSE IF r.success
       THEN LET c == mineOnce_onSuccess(ctx)
                l == [log EXCEPT !.outcome = "success"]
            IN  /\ UNCHANGED <<capabilityCache, issued, charged, invalidated, httpCalls,
                               last, batteryDepleted>>
                /\ IF mineOnce_resyncDue(c)
                   THEN /\ mpc' = "resync"
                        /\ ctx' = c
                        /\ log' = [l EXCEPT !.resyncs = @ + 1]
                        /\ UNCHANGED <<stateFile, pidFile, proc, exit>>
                   ELSE mineOnce_tail(c, l)
       ELSE IF r.alreadyDestroyed = Some(TRUE) /\ "onBlockAlreadyDestroyed" \in ctx.callbacks
       THEN mineOnce_callbackThrows(mineOnce_onAlreadyDestroyed(ctx),
                                    "onBlockAlreadyDestroyed")
       ELSE IF r.alreadyDestroyed = Some(TRUE)
       THEN /\ UNCHANGED <<capabilityCache, issued, charged, invalidated, httpCalls,
                           last, batteryDepleted>>
            /\ mineOnce_tail(mineOnce_onAlreadyDestroyed(ctx),
                             [log EXCEPT !.outcome = "already"])
       ELSE LET error == IF r.error # NULL /\ r.error.value # ""
                         THEN r.error.value ELSE "Unknown error"
                lowerError == IF r.error # NULL THEN toLowerCase(r.error.value) ELSE ""
                depleted == mineOnce_isDepleted(lowerError)
                c == [ctx EXCEPT !.stats.errors = @ + 1,
                                 !.lastError = error,
                                 !.running = IF depleted THEN FALSE ELSE @]
                l == [log EXCEPT !.outcome = "error",
                                 !.onError = @ + 1,
                                 !.rejected = IF mineOnce_isCapabilityError(lowerError)
                                              THEN @ \cup {log.nonce} ELSE @,
                                 !.onBatteryDepleted = IF depleted THEN @ + 1 ELSE @]
            IN  /\ IF mineOnce_isCapabilityError(lowerError)
                   THEN clearCapabilityCache
                   ELSE UNCHANGED <<capabilityCache, issued, charged, invalidated,
                                    httpCalls, last>>
                /\ batteryDepleted' = (depleted \/ batteryDepleted)
                /\ mineOnce_tail(c, l)

\* A step of the destroyBlock call made by mineOnce: when it returns, mineOnce
\* goes on in the same turn.
mineOnce_afterDestroy ==
    IF dpc' = "returned" THEN mineOnce_result(result')
    ELSE UNCHANGED <<cacheVars, minerVars, gridVars, startVars>>

\* Mutant: destroyBlock is called and not awaited.
mineOnce_gotCapability_NoAwait(refreshed) ==
    /\ ctx' = IF refreshed THEN [ctx EXCEPT !.stats.capabilityRefreshes = @ + 1] ELSE ctx
    /\ log' = [log EXCEPT !.nonce = last'.ret.capability.nonce,
                          !.fetched = @ + last'.fetches]
    /\ destroyBlock_enter
    /\ mpc' = "sleep"

\* mineOnce has the capability: the refresh count, then destroyBlock is called
\* with it.  The log keeps its nonce, and counts the POSTs that succeeded.
mineOnce_gotCapability(refreshed) ==
    /\ ctx' = IF refreshed THEN [ctx EXCEPT !.stats.capabilityRefreshes = @ + 1] ELSE ctx
    /\ log' = [log EXCEPT !.nonce = last'.ret.capability.nonce,
                          !.fetched = @ + last'.fetches]
    /\ destroyBlock_enter
    /\ mpc' = "destroy"

\* The while test of startMining.  When running is false startMining returns
\* and startCommand calls stopMining and removePidFile, and the process ends.
\* Otherwise mineOnce starts: it reads needsCapabilityRefresh() into wasRefresh.
startMining_iterate ==
    /\ proc = "mining"
    /\ mpc \in {"top", "sleep"}
    /\ UNCHANGED <<clock, ticks, validation, gridVars, startVars, batteryDepleted, stateFile>>
    /\ IF ~ctx.running
       THEN /\ ctx' = stopMining(ctx)
            /\ pidFile' = NULL
            /\ proc' = "exited"
            /\ log' = [log EXCEPT !.report = stopMining_report(batteryDepleted)]
            /\ exit' = Exit(0, IF batteryDepleted THEN "depleted" ELSE "stopped", NULL)
            /\ mpc' = "done"
            /\ UNCHANGED <<capabilityCache, issued, charged, invalidated, httpCalls, last,
                           wasRefresh, destroyVars>>
       ELSE /\ wasRefresh' = needsCapabilityRefresh(1)
            /\ log' = [log EXCEPT !.iterations = @ + 1, !.outcome = "none"]
            /\ mpc' = "acquiring"
            /\ UNCHANGED <<pidFile, proc, exit, capabilityCache, issued, charged,
                           invalidated, httpCalls, last, ctx, destroyVars>>

\* mineOnce calls getCapability in the same turn: it reads Date.now() again,
\* and serves the capability from the cache or awaits the POST.
mineOnce_getCapability ==
    /\ proc = "mining"
    /\ mpc = "acquiring"
    /\ IF isCacheValid(1)
       THEN /\ getCapabilityHit(1)
            /\ mineOnce_gotCapability(wasRefresh)
       ELSE /\ mpc' = "fetching"
            /\ UNCHANGED <<capabilityCache, issued, charged, invalidated, httpCalls,
                           last, ctx, log, destroyVars>>
    /\ UNCHANGED <<clock, ticks, proc, exit, validation, gridVars, startVars, wasRefresh,
                   batteryDepleted, pidFile, stateFile>>

\* The POST of getCapability settles.
mineOnce_fetched ==
    /\ proc = "mining"
    /\ mpc = "fetching"
    /\ getCapabilityFetch(1)
    /\ IF last'.ok
       THEN mineOnce_gotCapability(wasRefresh)
       ELSE /\ mpc' = "caught"
            /\ UNCHANGED <<ctx, log, destroyVars>>
    /\ UNCHANGED <<clock, ticks, proc, exit, validation, gridVars, startVars, wasRefresh, batteryDepleted,
                   pidFile, stateFile>>

\* The catch of mineOnce, for the error getCapability threw.
mineOnce_catch ==
    /\ proc = "mining"
    /\ mpc = "caught"
    /\ LET errorMessage == last.ret.error
           c == mineOnce_onException(ctx, errorMessage)
       IN  /\ IF mineOnce_isCapabilityError(toLowerCase(errorMessage))
              THEN clearCapabilityCache
              ELSE UNCHANGED <<capabilityCache, issued, charged, invalidated, httpCalls, last>>
           /\ mineOnce_tail(c, [log EXCEPT !.outcome = "exception", !.onError = @ + 1])
    /\ UNCHANGED <<clock, ticks, validation, gridVars, startVars, wasRefresh, batteryDepleted, destroyVars>>

mineOnce_simulated(errors) ==
    proc = "mining" /\ mpc = "destroy" /\ destroyBlock_simulated(errors) /\ mineOnce_afterDestroy

mineOnce_written(errors) ==
    proc = "mining" /\ mpc = "destroy" /\ destroyBlock_written(errors) /\ mineOnce_afterDestroy

mineOnce_receipt(errors) ==
    proc = "mining" /\ mpc = "destroy" /\ destroyBlock_receipt(errors) /\ mineOnce_afterDestroy

\* Mutant: an error of the resync reaches the catch of mineOnce.
mineOnce_resynced_CountsError ==
    /\ proc = "mining"
    /\ mpc = "resync"
    /\ \E status \in LicenseStatuses, throws \in BOOLEAN :
         IF throws
         THEN mineOnce_tail(mineOnce_onException(ctx, "HTTP request failed."),
                            [log EXCEPT !.resyncFailures = @ + 1, !.onError = @ + 1,
                                        !.outcome = "exception"])
         ELSE mineOnce_tail([ctx EXCEPT !.currentBattery = status.currentBattery,
                                        !.maxBattery = status.maxBattery,
                                        !.lastBatteryRefresh = clock],
                            log)
    /\ UNCHANGED <<cacheVars, destroyVars, validation, gridVars, startVars, wasRefresh, batteryDepleted>>

\* The getLicenseStatus of the battery resync settles; an error is ignored.
mineOnce_resynced ==
    /\ proc = "mining"
    /\ mpc = "resync"
    /\ \E status \in LicenseStatuses, throws \in BOOLEAN :
         IF throws
         THEN mineOnce_tail(ctx, [log EXCEPT !.resyncFailures = @ + 1])
         ELSE mineOnce_tail([ctx EXCEPT !.currentBattery = status.currentBattery,
                                        !.maxBattery = status.maxBattery,
                                        !.lastBatteryRefresh = clock],
                            log)
    /\ UNCHANGED <<cacheVars, destroyVars, validation, gridVars, startVars, wasRefresh, batteryDepleted>>

\* The reads of the balance refresh settle; an error is ignored.
mineOnce_balances ==
    /\ proc = "mining"
    /\ mpc = "balance"
    /\ startMining_afterMineOnce(ctx, log)
    /\ UNCHANGED <<cacheVars, destroyVars, validation, gridVars, startVars, wasRefresh, batteryDepleted>>

\* SIGINT or SIGTERM (Ctrl+C, `rrs-terminal stop`) is delivered while the
\* process awaits: the shutdown handler of startCommand runs.
shutdown ==
    /\ proc = "mining"
    /\ mpc \in {"fetching", "destroy", "resync", "balance", "sleep"}
    /\ ctx' = stopMining(ctx)
    /\ pidFile' = NULL
    /\ proc' = "exited"
    /\ exit' = Exit(0, "signal", NULL)
    /\ log' = [log EXCEPT !.report = stopMining_report(batteryDepleted)]
    /\ UNCHANGED <<cacheVars, destroyVars, validation, gridVars, startVars, mpc, wasRefresh, batteryDepleted,
                   stateFile>>

\* types.ts, and the local constants of decomposeContainer.
CONTAINERS_PER_LAYER == 1572864
CONTAINERS_PER_REGION == 4
REGIONS_PER_SECTOR == 256
SECTORS_PER_FACE == 256

FACE_NAMES == <<"TOP", "BOTTOM", "NORTH", "SOUTH", "EAST", "WEST">>

\* Mutant: the sector is taken before the region.
decomposeContainer_SectorFirst(containerId) ==
    LET container == containerId % CONTAINERS_PER_REGION
        remaining1 == containerId \div CONTAINERS_PER_REGION
        sector == remaining1 % SECTORS_PER_FACE
        remaining2 == remaining1 \div SECTORS_PER_FACE
        region == remaining2 % REGIONS_PER_SECTOR
        face == remaining2 \div REGIONS_PER_SECTOR
    IN  [face |-> face, sector |-> sector, region |-> region, container |-> container]

\* decomposeContainer: Math.floor of the quotient of two non-negative numbers
\* is the integer quotient.
decomposeContainer(containerId) ==
    LET container == containerId % CONTAINERS_PER_REGION
        remaining1 == containerId \div CONTAINERS_PER_REGION
        region == remaining1 % REGIONS_PER_SECTOR
        remaining2 == remaining1 \div REGIONS_PER_SECTOR
        sector == remaining2 % SECTORS_PER_FACE
        face == remaining2 \div SECTORS_PER_FACE
    IN  [face |-> face, sector |-> sector, region |-> region, container |-> container]

\* The values Math.floor(Math.random() * CONTAINERS_PER_LAYER) is drawn from
\* here: the first and the last ids, and one id in every SampleStride.
ContainerIds ==
    (0 .. MaxNear)
    \cup ((CONTAINERS_PER_LAYER - 1 - MaxNear) .. (CONTAINERS_PER_LAYER - 1))
    \cup { k * SampleStride : k \in 0 .. ((CONTAINERS_PER_LAYER - 1) \div SampleStride) }

\* mineOnce picks the container.
randomContainer ==
    /\ \E containerId \in ContainerIds : currentContainer' = containerId
    /\ loc' = NULL
    /\ UNCHANGED <<cacheVars, destroyVars, minerVars, startVars>>

\* renderDashboard decomposes ctx.currentContainer and names the face.
renderDashboard_loc ==
    /\ loc = NULL
    /\ loc' = decomposeContainer(currentContainer)
    /\ UNCHANGED <<cacheVars, destroyVars, minerVars, currentContainer, startVars>>

GridInit ==
    /\ currentContainer = 0
    /\ loc = NULL

(* A second start command, run by the same user while this one is alive. Of   *)
(* its startCommand the steps that touch the PID file are kept.               *)

OTHER_PID == 4243   \* process.pid of the second command

\* isProcessRunning(pid): process.kill(pid, 0) does not throw.
isProcessRunning(pid) ==
    \/ pid = PID /\ proc # "exited"
    \/ pid = OTHER_PID /\ other \in {"validating", "running"}

\* The command is started: readPidFile and isProcessRunning, then exit(1) or
\* on to the awaited fetchNetworkConfig and validateMiningSetup.
other_startCommand ==
    /\ other = "none"
    /\ LET existingPid == pidFile
       IN  other' = IF existingPid # NULL /\ isProcessRunning(existingPid.value)
                    THEN "refused"
                    ELSE "validating"
    /\ UNCHANGED <<cacheVars, destroyVars, minerVars, gridVars, networkConfig>>

\* Its validateMiningSetup has returned: exit(1), or writePidFile(process.pid)
\* and startMining.
other_validated(valid) ==
    /\ other = "validating"
    /\ IF valid
       THEN /\ pidFile' = Some(OTHER_PID)
            /\ other' = "running"
       ELSE /\ other' = "exited"
            /\ UNCHANGED pidFile
    /\ UNCHANGED <<cacheVars, destroyVars, gridVars, proc, exit, validation, mpc, wasRefresh,
                   ctx, batteryDepleted, stateFile, log, networkConfig>>

\* Its loop has ended or it was signalled: removePidFile and exit.
other_stopped ==
    /\ other = "running"
    /\ pidFile' = NULL
    /\ other' = "exited"
    /\ UNCHANGED <<cacheVars, destroyVars, gridVars, proc, exit, validation, mpc, wasRefresh,
                   ctx, batteryDepleted, stateFile, log, networkConfig>>

(* startCommand from its first statement to the client of validateMiningSetup *)

CONTRACT_NAMES == {"MegaCubeV4", "MegaCubeV5", "OperatorLicense", "ArtifactNFT", "Cubed"}

Address(name) == "0x" \o name

\* What https://megacorp.global/contracts.json answers: the HTTP status, and of
\* the JSON the network fields and the names under contracts that have an
\* address.
ContractsJson ==
    { [status |-> st, rpcUrl |-> r, chainId |-> c, contracts |-> cs] :
        st \in {200, 404}, r \in {"", "https://rpc"}, c \in {0, 6342},
        cs \in SUBSET CONTRACT_NAMES }

\* fetchNetworkConfig on the answer data: it throws, or returns the
\* NetworkConfig it builds, whose contracts are the four it names.
fetchNetworkConfig(data) ==
    IF data.status # 200
    THEN [ok |-> FALSE,
          error |-> "Failed to fetch network config: " \o ToString(data.status) \o " Not Found"]
    ELSE IF data.rpcUrl = "" \/ data.chainId = 0
    THEN [ok |-> FALSE,
          error |-> "Invalid network config: missing network.rpcUrl or network.chainId"]
    ELSE IF "MegaCubeV5" \notin data.contracts
    THEN [ok |-> FALSE,
          error |-> "Invalid network config: missing contracts.MegaCubeV5.address"]
    ELSE IF "OperatorLicense" \notin data.contracts
    THEN [ok |-> FALSE,
          error |-> "Invalid network config: missing contracts.OperatorLicense.address"]
    ELSE [ok |-> TRUE,
          config |->
            [network |-> [chainId |-> data.chainId, rpcUrl |-> data.rpcUrl],
             contracts |->
               [n \in {"MegaCubeV5", "OperatorLicense", "ArtifactNFT", "Cubed"} |->
                  [address |-> IF n \in data.contracts THEN Address(n) ELSE ""]]]]

\* createContractClient reads networkConfig.contracts.MegaCubeV4.address,
\* OperatorLicense.address and Cubed.address: reading .address of a contract
\* the config does not have throws a TypeError.
createContractClient(config) ==
    IF \E n \in {"MegaCubeV4", "OperatorLicense", "Cubed"} : n \notin DOMAIN config.contracts
    THEN [ok |-> FALSE, error |-> "Cannot read properties of undefined (reading 'address')"]
    ELSE [ok |-> TRUE,
          client |-> [megaCubeAddress |-> config.contracts["MegaCubeV4"].address,
                      droneAddress |-> config.contracts["OperatorLicense"].address,
                      cubedAddress |-> config.contracts["Cubed"].address]]

\* The network config of a session that has a client: the sessions of the
\* other specifications begin where validateMiningSetup has created it.
SessionConfig ==
    [network |-> [chainId |-> 6342, rpcUrl |-> "https://rpc"],
     contracts |-> [n \in CONTRACT_NAMES |-> [address |-> Address(n)]]]

\* startCommand up to its first await: the PID file, the configuration.
startCommand_begin(hasConfig, loads) ==
    /\ proc = "starting"
    /\ LET existingPid == pidFile
       IN  IF existingPid # NULL /\ isProcessRunning(existingPid.value)
           THEN /\ proc' = "exited"
                /\ exit' = Exit(1, "alreadyRunning", NULL)
           ELSE IF ~hasConfig
           THEN /\ proc' = "exited"
                /\ exit' = Exit(1, "noConfig", NULL)
           ELSE IF ~loads
           THEN /\ proc' = "exited"
                /\ exit' = Exit(1, "loadConfig", NULL)
           ELSE /\ proc' = "fetchingNetwork"
                /\ UNCHANGED exit
    /\ UNCHANGED <<cacheVars, destroyVars, gridVars, startVars, validation, mpc, wasRefresh,
                   ctx, batteryDepleted, pidFile, stateFile, log>>

\* await fetchNetworkConfig() settles: exit(1) when it threw.
startCommand_fetchedNetwork(data) ==
    /\ proc = "fetchingNetwork"
    /\ LET r == fetchNetworkConfig(data)
       IN  IF r.ok
           THEN /\ networkConfig' = r.config
                /\ proc' = "fetchedNetwork"
                /\ UNCHANGED exit
           ELSE /\ proc' = "exited"
                /\ exit' = Exit(1, "network", Some(r.error))
                /\ UNCHANGED networkConfig
    /\ UNCHANGED <<cacheVars, destroyVars, gridVars, other, validation, mpc, wasRefresh,
                   ctx, batteryDepleted, pidFile, stateFile, log>>

\* startCommand calls validateMiningSetup, whose try block begins with
\* createContractClient: what it throws is returned as {valid: false, error}.
validateMiningSetup_client ==
    /\ proc = "fetchedNetwork"
    /\ LET c == createContractClient(networkConfig)
       IN  IF c.ok
           THEN /\ proc' = "validating"
                /\ UNCHANGED <<exit, mpc, wasRefresh, ctx, batteryDepleted, pidFile,
                               stateFile, log>>
           ELSE startCommand_invalid(c.error)
    /\ UNCHANGED <<cacheVars, destroyVars, gridVars, startVars, validation>>

StartInit ==
    /\ other = "none"
    /\ networkConfig = SessionConfig

\* The runtime state a previous session has left behind.
StaleState ==
    Some([pid |-> PID - 1, startTime |-> 0,
          stats |-> [blocksDestroyed |-> 10, blocksAlreadyDestroyed |-> 0, errors |-> 0,
                     startTime |-> 0, capabilityRefreshes |-> 1]])

MinerInit ==
    /\ proc = "validating"
    /\ exit = NULL
    /\ validation = NULL
    /\ mpc = "none"
    /\ wasRefresh = FALSE
    /\ ctx = NULL
    /\ batteryDepleted = FALSE
    /\ pidFile = NULL
    /\ stateFile = StaleState
    /\ log = NoLog

-----------------------------------------------------------------------------
(* The cache driven through its exported functions by an arbitrary caller *)

CallGetCapability ==
    \E cost \in Costs :
        /\ ~isCacheValid(cost) => httpCalls < MaxFetches
        /\ getCapability(cost)
        /\ UNCHANGED <<clock, ticks, destroyVars, minerVars, gridVars, startVars>>

CallClearCapabilityCache ==
    clearCapabilityCache /\ UNCHANGED <<clock, ticks, destroyVars, minerVars, gridVars, startVars>>

CallNeedsCapabilityRefresh ==
    \E cost \in Costs :
        /\ last' = [op |-> "needsCapabilityRefresh", cost |-> cost, fetches |-> 0,
                    ok |-> TRUE, ret |-> [value |-> needsCapabilityRefresh(cost)]]
        /\ UNCHANGED <<capabilityCache, clock, ticks, issued, charged, invalidated, httpCalls>>
        /\ UNCHANGED <<destroyVars, minerVars, gridVars, startVars>>

\* Time passes.
DateNowAdvances ==
    /\ ticks < MaxTicks
    /\ \E d \in TickSteps : clock' = clock + d
    /\ ticks' = ticks + 1
    /\ last' = [op |-> "tick", cost |-> 0, fetches |-> 0, ok |-> TRUE, ret |-> NULL]
    /\ UNCHANGED <<capabilityCache, issued, charged, invalidated, httpCalls>>

CacheInit ==
    /\ capabilityCache = NULL
    /\ clock = StartClock
    /\ ticks = 0
    /\ issued = [nonce |-> 0, budget |-> 0]
    /\ charged = 0
    /\ invalidated = FALSE
    /\ httpCalls = 0
    /\ last = [op |-> "init", cost |-> 0, fetches |-> 0, ok |-> TRUE, ret |-> NULL]

Tick == DateNowAdvances /\ UNCHANGED <<destroyVars, minerVars, gridVars, startVars>>

CacheNext ==
    \/ CallGetCapability
    \/ CallClearCapabilityCache
    \/ CallNeedsCapabilityRefresh
    \/ Tick

vars == <<cacheVars, destroyVars, minerVars, gridVars, startVars>>

Init == CacheInit /\ DestroyInit /\ MinerInit /\ GridInit /\ StartInit

SpecCache == Init /\ [][CacheNext]_vars

(* destroyBlock called again and again, the chain answering in every way *)

DestroyEnter ==
    destroys < MaxDestroys /\ destroyBlock_enter /\ UNCHANGED <<cacheVars, minerVars, gridVars, startVars>>

DestroySimulated == destroyBlock_simulated(ChainErrors) /\ UNCHANGED <<cacheVars, minerVars, gridVars, startVars>>

DestroyWritten == destroyBlock_written(ChainErrors) /\ UNCHANGED <<cacheVars, minerVars, gridVars, startVars>>

DestroyReceipt == destroyBlock_receipt(ChainErrors) /\ UNCHANGED <<cacheVars, minerVars, gridVars, startVars>>

DestroyNext ==
    \/ DestroyEnter
    \/ DestroySimulated
    \/ DestroyWritten
    \/ DestroyReceipt

SpecDestroy == Init /\ [][DestroyNext]_vars

(* A session of `rrs-terminal start`: a few iterations, the endpoint, the chain, *)
(* the file system, the clock and the operator behaving in every way            *)

MineIterate ==
    /\ proc = "mining"
    /\ (ctx.running => log.iterations < MaxIterations)
    /\ startMining_iterate

\* The errors the chain answers with in a session: one of each kind the loop
\* tells apart (already destroyed, capability, depleted, other).
MineErrors ==
    { "execution reverted: Already destroyed",
      "execution reverted: Capability expired",
      "execution reverted: Battery depleted - shift ended",
      "execution reverted: Shift ended",
      "Timed out while waiting for transaction with hash \"0xTx\" to be confirmed." }

MineSimulated == mineOnce_simulated(MineErrors)

MineWritten == mineOnce_written(MineErrors)

MineReceipt == mineOnce_receipt(MineErrors)

MineNext ==
    \/ validateMiningSetup_reads
    \/ validateMiningSetup_capability
    \/ startCommand_startMining
    \/ MineIterate
    \/ mineOnce_getCapability
    \/ mineOnce_fetched
    \/ mineOnce_catch
    \/ MineSimulated
    \/ MineWritten
    \/ MineReceipt
    \/ mineOnce_balances
    \/ shutdown

SpecMine == Init /\ [][MineNext]_vars

(* A long shift: the endpoint issues full capabilities and the chain accepts *)
(* every operation                                                           *)

ShiftIterate ==
    /\ proc = "mining"
    /\ (ctx.running => log.iterations < MaxShift)
    /\ startMining_iterate

ShiftFetched ==
    /\ mineOnce_fetched
    /\ last'.ok
    /\ issued'.budget = MaxBudget
    /\ capabilityCache'.bundle.capability.expiresAt = NowSeconds + 100

ShiftSimulated == mineOnce_simulated({})

ShiftWritten == mineOnce_written({})

ShiftReceipt == mineOnce_receipt({}) /\ result'.success

ShiftNext ==
    \/ validateMiningSetup_reads
    \/ validateMiningSetup_capability
    \/ startCommand_startMining
    \/ ShiftIterate
    \/ mineOnce_getCapability
    \/ ShiftFetched
    \/ ShiftSimulated
    \/ ShiftWritten
    \/ ShiftReceipt
    \/ mineOnce_resynced
    \/ mineOnce_balances

SpecShift == Init /\ [][ShiftNext]_vars

-----------------------------------------------------------------------------
(* Claims about the capability cache, checked under SpecCache *)

\* The step just taken is a getCapability(c) call.
AcquireStep(c) == last'.op = "getCapability" /\ last'.cost = c

\* The entry exists, is more than 30 s from expiry and has local budget for c.
EntryUsable(c) ==
    /\ capabilityCache # NULL
    /\ NowSeconds < capabilityCache.bundle.capability.expiresAt - 30
    /\ capabilityCache.remainingBudget >= c

\* C1: the costs of all getCapability calls that returned one issued capability
\* (the call that fetched it and every later cache hit) sum to at most its budget.
C1_BudgetNeverOverspent ==
    issued.nonce > 0 => charged <= issued.budget

\* C2: with an entry that exists, is not within 30 s of expiry and has
\* remainingBudget >= cost, getCapability(cost) makes no POST, returns the cached
\* bundle and leaves the entry as it was but for remainingBudget, lowered by cost.
C2_ValidEntryServedFromCache ==
    [][\A c \in Costs :
         (EntryUsable(c) /\ AcquireStep(c)) =>
            /\ last'.fetches = 0
            /\ httpCalls' = httpCalls
            /\ last'.ok
            /\ last'.ret = capabilityCache.bundle
            /\ capabilityCache' =
                 [capabilityCache EXCEPT !.remainingBudget = capabilityCache.remainingBudget - c]
      ]_vars

C2_Witness ==
    /\ last.op = "getCapability"
    /\ last.fetches = 0
    /\ last.cost >= 1
    /\ capabilityCache # NULL
    /\ capabilityCache.bundle = last.ret
    /\ capabilityCache.remainingBudget >= 1

\* C3: with no entry, or an entry not valid for cost, getCapability(cost) makes
\* exactly one POST and, when the endpoint answers with a capability, caches that
\* capability with remainingBudget = its budget - cost and returns it.
C3_InvalidEntryFetchesOnce ==
    [][\A c \in Costs :
         (~EntryUsable(c) /\ AcquireStep(c)) =>
            /\ last'.fetches = 1
            /\ httpCalls' = httpCalls + 1
            /\ last'.ok =>
                 /\ last'.ret.capability.nonce = issued.nonce + 1
                 /\ issued'.nonce = issued.nonce + 1
                 /\ last'.ret.capability.budget = issued'.budget
                 /\ capabilityCache' # NULL
                 /\ capabilityCache'.bundle = last'.ret
                 /\ capabilityCache'.remainingBudget = issued'.budget - c
      ]_vars

C3_Witness ==
    /\ last.op = "getCapability"
    /\ last.fetches = 1
    /\ last.ok
    /\ last.cost >= 1
    /\ issued.nonce >= 2
    /\ capabilityCache # NULL
    /\ capabilityCache.bundle = last.ret

C5_ExpiryMarginForcesFetch ==
    [][\A c \in Costs :
         AcquireStep(c) =>
            /\ ( /\ capabilityCache # NULL
                 /\ NowSeconds >= capabilityCache.bundle.capability.expiresAt - 30 ) =>
                    /\ last'.fetches = 1
                    /\ httpCalls' = httpCalls + 1
            /\ last'.fetches = 0 =>
                    NowSeconds < last'.ret.capability.expiresAt - 30
      ]_vars

C5_Witness ==
    /\ last.op = "getCapability"
    /\ last.fetches = 1
    /\ last.ok
    /\ last.cost = 0
    /\ ~last.afterClear
    /\ issued.nonce = 2
    /\ NowSeconds = 1070
    /\ last.ret.capability.issuedAt = 1070

\* C6: a getCapability(cost) issued when remainingBudget < cost makes a POST
\* whatever the time left; with the budget-1 capability valid over [1000, 1100)
\* cached uncharged, getCapability(1) at now = 1000 is a cache hit, and with its
\* budget spent getCapability(1) at now = 1001 makes a POST.
C6_ExhaustedBudgetForcesFetch ==
    [][\A c \in Costs :
         AcquireStep(c) =>
            /\ (capabilityCache # NULL /\ capabilityCache.remainingBudget < c) =>
                    /\ last'.fetches = 1
                    /\ httpCalls' = httpCalls + 1
            /\ ( /\ c = 1
                 /\ capabilityCache # NULL
                 /\ capabilityCache.bundle.capability.budget = 1
                 /\ capabilityCache.bundle.capability.issuedAt = 1000
                 /\ capabilityCache.bundle.capability.expiresAt = 1100 ) =>
                    /\ (NowSeconds = 1000 /\ capabilityCache.remainingBudget = 1) =>
                           (last'.fetches = 0 /\ capabilityCache'.remainingBudget = 0)
                    /\ (NowSeconds = 1001 /\ capabilityCache.remainingBudget = 0) =>
                           last'.fetches = 1
      ]_vars

C6_Witness ==
    /\ last.op = "getCapability"
    /\ last.cost = 1
    /\ last.fetches = 1
    /\ last.ok
    /\ NowSeconds = 1001
    /\ last.ret.capability.nonce = 2
    /\ last.ret.capability.issuedAt = 1001

\* C7: the first getCapability after a clearCapabilityCache makes a POST.
C7_AcquireAfterInvalidateFetches ==
    [][\A c \in Costs :
         (invalidated /\ AcquireStep(c)) =>
            /\ last'.fetches = 1
            /\ httpCalls' = httpCalls + 1
      ]_vars

C7_Witness ==
    /\ last.op = "getCapability"
    /\ last.afterClear
    /\ last.fetches = 1
    /\ last.ok
    /\ last.ret.capability.nonce = 2
    /\ last.ret.capability.issuedAt = 1000

\* C8: needsCapabilityRefresh(cost) changes nothing of the cache, and a
\* getCapability(cost) in the state it was evaluated in makes a POST exactly when it
\* returned true.
C8_NeedsRefreshMirrorsAcquire ==
    [][ /\ last'.op = "needsCapabilityRefresh" =>
             /\ capabilityCache' = capabilityCache
             /\ httpCalls' = httpCalls
             /\ clock' = clock
        /\ (last.op = "needsCapabilityRefresh" /\ AcquireStep(last.cost)) =>
             (last'.fetches = 1 <=> last.ret.value)
      ]_vars

C8_Witness ==
    /\ last.op = "needsCapabilityRefresh"
    /\ last.cost = 2
    /\ last.ret.value
    /\ capabilityCache # NULL
    /\ capabilityCache.remainingBudget = 1
    /\ NowSeconds < capabilityCache.bundle.capability.expiresAt - 30

\* C9: whenever there is an entry, remainingBudget <= capability.budget.
C9_RemainingAtMostBudget ==
    capabilityCache # NULL =>
        capabilityCache.remainingBudget <= capabilityCache.bundle.capability.budget

C9_Witness ==
    /\ capabilityCache # NULL
    /\ last.op = "getCapability"
    /\ last.fetches = 0
    /\ last.cost = 1
    /\ capabilityCache.remainingBudget = capabilityCache.bundle.capability.budget - 2

-----------------------------------------------------------------------------
(* Claims about destroyBlock, checked under SpecDestroy *)

\* C10: when simulateContract throws, whatever the message, destroyBlock returns
\* success = false without calling writeContract or waitForTransactionReceipt;
\* for 'execution reverted: Already destroyed' the result has alreadyDestroyed set.
C10_SimulationFailureNeverSubmits ==
    call.simError # NULL =>
        /\ call.submitted = 0
        /\ call.awaited = 0
        /\ call.hash = NULL
        /\ dpc = "returned"
        /\ result # NULL
        /\ result.success = FALSE
        /\ result.txHash = NULL
        /\ call.simError.value = "execution reverted: Already destroyed" =>
               result.alreadyDestroyed = Some(TRUE)

C10_Witness ==
    /\ call.simulated = 1
    /\ call.simError = Some("execution reverted: Already destroyed")
    /\ dpc = "returned"
    /\ result.success = FALSE
    /\ result.alreadyDestroyed = Some(TRUE)
    /\ call.submitted = 0

\* The failure classification table of the specification: the kind of the first
\* row that matches the message.
TableKind(message) ==
    LET lower == toLowerCase(message) IN
    IF includes(lower, "already destroyed") \/ includes(lower, "tile already")
    THEN "AlreadyProcessed"
    ELSE IF includes(lower, "capability expired") THEN "CapabilityExpired"
    ELSE IF includes(lower, "capability exhausted") THEN "CapabilityExhausted"
    ELSE IF includes(lower, "budget too low") \/ includes(lower, "budget")
    THEN "BudgetExhausted"
    ELSE IF includes(lower, "not authorized") THEN "NotAuthorized"
    ELSE IF includes(lower, "invalid capability signature") THEN "InvalidSignature"
    ELSE IF includes(lower, "battery depleted") \/ includes(lower, "shift ended")
    THEN "ResourceDepleted"
    ELSE IF includes(lower, "invalid container") THEN "InvalidTarget"
    ELSE IF includes(lower, "invalid tile") THEN "InvalidTarget"
    ELSE IF includes(lower, "jackpot fee") THEN "FeeTooLow"
    ELSE IF revertMatch(message) # NULL
    THEN IF includes(toLowerCase(revertMatch(message).value), "already")
         THEN "AlreadyProcessed" ELSE "GenericRevert"
    ELSE "Unknown"

\* The outcome kinds a returned DestroyResult can stand for. The result has no
\* kind field: the kind is carried by alreadyDestroyed and by the error text,
\* and one text of the outer catch stands for two rows.
ResultKinds(r) ==
    IF r.alreadyDestroyed = Some(TRUE) THEN {"AlreadyProcessed"}
    ELSE IF r.error = Some("Capability expired") THEN {"CapabilityExpired"}
    ELSE IF r.error = Some("Capability exhausted (on-chain)") THEN {"CapabilityExhausted"}
    ELSE IF r.error = Some("Capability budget too low (cap.budget < cost)")
    THEN {"BudgetExhausted"}
    ELSE IF r.error = Some("Capability budget exhausted")
    THEN {"CapabilityExhausted", "BudgetExhausted"}
    ELSE IF r.error \in {Some("Not authorized for license"), Some("Not authorized for drone")}
    THEN {"NotAuthorized"}
    ELSE IF r.error = Some("Invalid capability signature") THEN {"InvalidSignature"}
    ELSE IF r.error = Some("Battery depleted - shift ended") THEN {"ResourceDepleted"}
    ELSE IF r.error \in {Some("Invalid container ID"), Some("Invalid tile ID")}
    THEN {"InvalidTarget"}
    ELSE IF r.error = Some("Jackpot fee too low") THEN {"FeeTooLow"}
    ELSE {"GenericRevert", "Unknown"}

\* The message of the error a returned call of destroyBlock caught, or NULL.
Thrown == IF call.simError # NULL THEN call.simError ELSE call.error

\* C11: whichever phase raised it (simulation, or submit / receipt wait), a
\* failure message is classified to the kind of the first row of the failure
\* classification table that matches it, so both phases agree on every message.
C11_BothPhasesClassifyByTable ==
    (dpc = "returned" /\ Thrown # NULL) =>
        TableKind(Thrown.value) \in ResultKinds(result)

\* C12: a message that contains 'already destroyed' is AlreadyProcessed in
\* either phase, also when it contains 'capability expired' (before or after
\* it, in any letter case).
C12_AlreadyDestroyedHasPriority ==
    (/\ dpc = "returned"
     /\ Thrown # NULL
     /\ includes(toLowerCase(Thrown.value), "already destroyed")) =>
        /\ result.success = FALSE
        /\ result.alreadyDestroyed = Some(TRUE)
        /\ result.error = Some("Already destroyed")

C12_Witness ==
    /\ dpc = "returned"
    /\ call.awaited = 1
    /\ call.error = Some("execution reverted: Capability Expired; tile Already Destroyed")
    /\ includes(toLowerCase(call.error.value), "capability expired")
    /\ result.alreadyDestroyed = Some(TRUE)

-----------------------------------------------------------------------------
(* Claims about the mining session, checked under SpecMine and SpecShift *)

DepletedMessage == "execution reverted: Battery depleted - shift ended"

\* The step in which simulateContract throws the depletion message.
SimulationThrowsDepleted ==
    /\ proc = "mining"
    /\ call.simError = NULL
    /\ call'.simError = Some(DepletedMessage)

\* C13: the iteration in which the simulation throws 'execution reverted:
\* Battery depleted - shift ended' adds exactly one to the error count, invokes
\* onBatteryDepleted exactly once and sets running to false; from then on no
\* iteration starts: no capability is acquired and destroyBlock is not called.
C13_DepletionEndsTheSession ==
    [][ /\ SimulationThrowsDepleted =>
              /\ ctx'.stats.errors = ctx.stats.errors + 1
              /\ ctx'.stats.blocksDestroyed = ctx.stats.blocksDestroyed
              /\ ctx'.stats.blocksAlreadyDestroyed = ctx.stats.blocksAlreadyDestroyed
              /\ log'.onBatteryDepleted = log.onBatteryDepleted + 1
              /\ batteryDepleted'
              /\ ~ctx'.running
        /\ log.onBatteryDepleted > 0 =>
              /\ log'.iterations = log.iterations
              /\ destroys' = destroys
              /\ httpCalls' = httpCalls
              /\ charged' = charged
              /\ ctx'.stats = ctx.stats
              /\ log'.onBatteryDepleted = log.onBatteryDepleted
              /\ ~ctx'.running ]_vars

C13_Witness ==
    /\ proc = "exited"
    /\ exit.by = "depleted"
    /\ call.simError = Some(DepletedMessage)
    /\ log.onBatteryDepleted = 1
    /\ ctx.stats.errors = 1
    /\ ~ctx.running

\* C14: getLicenseStatus is called for a resync exactly in the steps in which
\* a success brings blocksDestroyed to a multiple of 25: the number of resync
\* calls is always blocksDestroyed \div 25 (none up to 24, one from 25 to 49).
C14_ResyncEveryTwentyFifthSuccess ==
    [][ proc = "mining" =>
          /\ log'.resyncs = ctx'.stats.blocksDestroyed \div 25
          /\ (log'.resyncs # log.resyncs) <=>
                 /\ ctx'.stats.blocksDestroyed = ctx.stats.blocksDestroyed + 1
                 /\ ctx'.stats.blocksDestroyed % 25 = 0 ]_vars

C14_Witness ==
    /\ ctx # NULL
    /\ ctx.stats.blocksDestroyed = 49
    /\ ctx.stats.errors = 0
    /\ ctx.stats.blocksAlreadyDestroyed = 0
    /\ log.resyncs = 1

\* C15: the local battery estimate is never negative: a success lowers it by
\* one, and leaves it at 0 when it is 0.
C15_BatteryEstimateNeverNegative ==
    [][ ctx' # NULL =>
          /\ ctx'.currentBattery >= 0
          /\ (ctx # NULL /\ ctx'.stats.blocksDestroyed = ctx.stats.blocksDestroyed + 1) =>
                 ctx'.currentBattery =
                     IF ctx.currentBattery > 0 THEN ctx.currentBattery - 1 ELSE 0 ]_vars

C15_Witness ==
    /\ ctx # NULL
    /\ validation.status.currentBattery = 1
    /\ ctx.stats.blocksDestroyed = 3
    /\ log.resyncs = 0
    /\ ctx.currentBattery = 0

\* C16: once the loop has started, the process ends only because running was
\* set false by depletion or by an operator stop: no failure inside an
\* iteration leaves startMining.
C16_NoFailureLeavesTheLoop ==
    (proc = "exited" /\ ctx # NULL) =>
        /\ exit.code = 0
        /\ exit.by \in {"depleted", "signal"}

\* C17: when a signal ends the session, no iteration is in flight: the
\* iteration that was running has completed and its outcome is counted.
C17_SignalNeverPreemptsAnIteration ==
    (proc = "exited" /\ exit.by = "signal") =>
        /\ mpc = "sleep"
        /\ dpc \in {"idle", "returned"}
        /\ log.outcome # "none"

\* The errors validateMiningSetup reports for what it read.
SetupErrors ==
    (IF validation.balance = 0
     THEN {"Session wallet " \o WALLET \o " has no ETH. Fund it with ETH for gas."}
     ELSE {})
    \cup
    (IF ~validation.authorized
     THEN {"Session wallet " \o WALLET
           \o " is not authorized for drone #1. Set session key on drone first."}
     ELSE {})
    \cup
    (IF validation.status.currentBattery = 0
     THEN {"License battery depleted. Wait for next shift."}
     ELSE {})

\* C18: when validation finds no funds, no authorization or an empty battery,
\* the process exits with code 1 and that error before the loop starts: no PID
\* file is written, no context is created, destroyBlock is never called.
C18_SetupFailureAbortsBeforeTheLoop ==
    (validation # NULL /\ validation.throws = NULL /\ SetupErrors # {}) =>
        /\ proc = "exited"
        /\ exit.code = 1
        /\ exit.by = "validation"
        /\ exit.error # NULL
        /\ exit.error.value \in SetupErrors
        /\ pidFile = NULL
        /\ ctx = NULL
        /\ mpc = "none"
        /\ log.iterations = 0
        /\ destroys = 0

C18_Witness ==
    /\ validation # NULL
    /\ validation.throws = NULL
    /\ validation.balance = 1
    /\ validation.authorized
    /\ validation.status.currentBattery = 0
    /\ proc = "exited"
    /\ exit.error = Some("License battery depleted. Wait for next shift.")
    /\ pidFile = NULL

\* C19: saveRuntimeState is called only in an iteration whose success brought
\* blocksDestroyed to a positive multiple of 10.
C19_SnapshotOnlyOnTenthSuccess ==
    [][ (proc = "mining" /\ log'.saves # log.saves) =>
          /\ log'.outcome = "success"
          /\ ctx'.stats.blocksDestroyed > 0
          /\ ctx'.stats.blocksDestroyed % 10 = 0 ]_vars

\* C20: once the session has ended, by an operator stop or by depletion, no
\* runtime state remains.
C20_NoRuntimeStateAfterTheSession ==
    (proc = "exited" /\ ctx # NULL /\ exit.by \in {"signal", "depleted"}) =>
        stateFile = NULL

(* A session that no signal interrupts, the chain failing in more ways *)

\* An error of the RPC transport: the reason of the revert comes after the URL
\* and the body of the request.
RpcShiftEnded ==
    "RPC Request failed.\n\nURL: https://rpc.example\nRequest body: "
    \o "{method:eth_call,params:[{to:0xC0ffee,data:0x5d1c0de0"
    \o "0000000000000000000000000000000000000000000000000000000000000001"
    \o "00000000000000000000000000000000000000000000000000000000000010e1},latest]}"
    \o "\n\nDetails: execution reverted: Shift ended"

\* Messages of every kind the loop tells apart (already destroyed, capability
\* and budget, depleted, other).
KindErrors ==
    { "execution reverted: Already destroyed",
      "execution reverted: Capability expired",
      "execution reverted: Capability exhausted",
      "execution reverted: Budget too low",
      "execution reverted: Invalid capability signature",
      "execution reverted: Capability mode not allowed",
      "execution reverted: Not authorized",
      "execution reverted: Battery depleted - shift ended",
      "execution reverted: Shift ended",
      RpcShiftEnded,
      "Timed out while waiting for transaction with hash \"0xTx\" to be confirmed." }

\* The license is fully charged, and the endpoint answers with a capability
\* of any budget that lasts 100 s.
KindReads ==
    /\ validateMiningSetup_reads
    /\ proc' = "validatingCapability" => validation'.status.currentBattery = 30

KindCapability ==
    /\ validateMiningSetup_capability
    /\ last'.ok
    /\ issued'.budget = MaxBudget

KindIterate ==
    /\ proc = "mining"
    /\ (ctx.running => log.iterations < MaxIterations)
    /\ startMining_iterate

KindFetched ==
    /\ mineOnce_fetched
    /\ last'.ok
    /\ capabilityCache'.bundle.capability.expiresAt = NowSeconds + 100

KindSimulated == mineOnce_simulated(KindErrors)

KindWritten == mineOnce_written(KindErrors)

KindReceipt == mineOnce_receipt(KindErrors)

KindNext ==
    \/ KindReads
    \/ KindCapability
    \/ startCommand_startMining
    \/ KindIterate
    \/ mineOnce_getCapability
    \/ KindFetched
    \/ KindSimulated
    \/ KindWritten
    \/ KindReceipt
    \/ mineOnce_balances

SpecKinds == Init /\ [][KindNext]_vars

(* A session started by a caller of createMinerContext and startMining that   *)
(* passes callbacks of its own, some of which throw.                          *)

CallbackStart ==
    \E callbacks \in SUBSET {"onBlockDestroyed", "onBlockAlreadyDestroyed"} :
        startMining_with(callbacks)

CallbackErrors == { "execution reverted: Already destroyed" }

CallbackSimulated == mineOnce_simulated(CallbackErrors)

CallbackNext ==
    \/ KindReads
    \/ KindCapability
    \/ CallbackStart
    \/ KindIterate
    \/ mineOnce_getCapability
    \/ KindFetched
    \/ CallbackSimulated
    \/ ShiftWritten
    \/ ShiftReceipt
    \/ mineOnce_balances

SpecCallbacks == Init /\ [][CallbackNext]_vars

(* The start command from its first statement, on a directory in which a      *)
(* crashed session may have left its PID file, while the user may run the      *)
(* command a second time.                                                     *)

LaunchInit ==
    /\ CacheInit /\ DestroyInit /\ GridInit
    /\ proc = "starting"
    /\ exit = NULL
    /\ validation = NULL
    /\ mpc = "none"
    /\ wasRefresh = FALSE
    /\ ctx = NULL
    /\ batteryDepleted = FALSE
    /\ pidFile \in {NULL, Some(PID - 1)}
    /\ stateFile = StaleState
    /\ log = NoLog
    /\ other = "none"
    /\ networkConfig = NULL

OtherValidated == \E valid \in BOOLEAN : other_validated(valid)

LaunchBegin == \E hasConfig, loads \in BOOLEAN : startCommand_begin(hasConfig, loads)

LaunchFetched == \E data \in ContractsJson : startCommand_fetchedNetwork(data)

LaunchNext ==
    \/ LaunchBegin
    \/ LaunchFetched
    \/ validateMiningSetup_client
    \/ other_startCommand
    \/ OtherValidated
    \/ other_stopped

SpecLaunch == LaunchInit /\ [][LaunchNext]_vars

\* The command runs to its end: every step of it is the process's own.
FairLaunch ==
    /\ SpecLaunch
    /\ WF_vars(LaunchBegin) /\ WF_vars(LaunchFetched) /\ WF_vars(validateMiningSetup_client)

(* A session during which the user runs the start command a second time.      *)

StartsNext ==
    \/ KindReads
    \/ KindCapability
    \/ startCommand_startMining
    \/ KindIterate
    \/ mineOnce_getCapability
    \/ KindFetched
    \/ CallbackSimulated
    \/ ShiftWritten
    \/ ShiftReceipt
    \/ mineOnce_balances
    \/ shutdown
    \/ other_startCommand
    \/ OtherValidated
    \/ other_stopped

SpecStarts == Init /\ [][StartsNext]_vars

(* A session in which the chain accepts every block, while time passes: during *)
(* the sleep, and between the two readings of Date.now() at the start of      *)
(* mineOnce (needsCapabilityRefresh, then getCapability).                     *)

ClockIterate ==
    /\ proc = "mining"
    /\ (ctx.running => log.iterations < MaxIterations)
    /\ startMining_iterate

\* What Date.now() advances by: a millisecond between two statements of a
\* turn, seventy seconds less a millisecond while the loop sleeps.
ClockSteps(at) == IF at = "acquiring" THEN {1} ELSE {69999}

ClockTick ==
    /\ proc = "mining"
    /\ mpc \in {"sleep", "acquiring"}
    /\ ticks < MaxTicks
    /\ \E d \in ClockSteps(mpc) : clock' = clock + d
    /\ ticks' = ticks + 1
    /\ UNCHANGED <<capabilityCache, issued, charged, invalidated, httpCalls, last,
                   destroyVars, minerVars, gridVars, startVars>>

ClockNext ==
    \/ validateMiningSetup_reads
    \/ validateMiningSetup_capability
    \/ startCommand_startMining
    \/ ClockIterate
    \/ ClockTick
    \/ mineOnce_getCapability
    \/ mineOnce_fetched
    \/ mineOnce_catch
    \/ ShiftSimulated
    \/ ShiftWritten
    \/ ShiftReceipt

SpecClock == Init /\ [][ClockNext]_vars

(* The containers mineOnce picks, located by renderDashboard *)

GridNext ==
    \/ randomContainer
    \/ renderDashboard_loc

SpecGrid == Init /\ [][GridNext]_vars

\* C21: when the loop has ended because a destroy reported the battery
\* depleted, stopMining prints the depleted report and never the generic one;
\* when a signal ends a session in which no depletion was detected, it prints
\* the generic report.
C21_DepletedReportOnDepletion ==
    (proc = "exited" /\ ctx # NULL) =>
        /\ exit.by = "depleted" =>
              /\ log.onBatteryDepleted > 0
              /\ log.report = "depleted"
        /\ (exit.by \in {"depleted", "stopped"} /\ log.onBatteryDepleted > 0) =>
              log.report = "depleted"
        /\ (exit.by = "signal" /\ log.onBatteryDepleted = 0) => log.report = "stopped"

C21_Witness ==
    /\ proc = "exited"
    /\ exit.by = "depleted"
    /\ log.onBatteryDepleted = 1
    /\ log.report = "depleted"
    /\ ~ctx.running

\* C22: for every containerId from 0 up to CONTAINERS_PER_LAYER - 1 the
\* location has sector < 256, region < 256, container < 4 and face < 6 (a
\* face that has a name), and ((face * 256 + sector) * 256 + region) * 4 +
\* container is the containerId again.
C22_DecomposeRecomposes ==
    loc # NULL =>
        /\ currentContainer \in 0 .. (CONTAINERS_PER_LAYER - 1)
        /\ loc.sector \in 0 .. 255
        /\ loc.region \in 0 .. 255
        /\ loc.container \in 0 .. 3
        /\ loc.face \in 0 .. 5
        /\ loc.face + 1 \in DOMAIN FACE_NAMES
        /\ ((loc.face * 256 + loc.sector) * 256 + loc.region) * 4 + loc.container
             = currentContainer

C22_Witness ==
    /\ currentContainer = CONTAINERS_PER_LAYER - 1
    /\ loc = [face |-> 5, sector |-> 255, region |-> 255, container |-> 3]

\* The step of a session in which the destroyBlock call of the iteration returns.
DestroyReturns ==
    /\ proc = "mining"
    /\ mpc = "destroy"
    /\ dpc # "returned"
    /\ dpc' = "returned"

\* C23: when the destroy of an iteration fails with a message whose first
\* matching row of the classification table is 'battery depleted' or 'shift
\* ended', whichever phase threw it, that same iteration sets running to false
\* and invokes the depletion callback.
C23_DepletionStopsInEitherPhase ==
    [][ (/\ DestroyReturns
         /\ Thrown' # NULL
         /\ TableKind(Thrown'.value) = "ResourceDepleted") =>
            /\ ~ctx'.running
            /\ log'.onBatteryDepleted = log.onBatteryDepleted + 1 ]_vars

\* The kinds of failure after which the capability must be fetched again.
RefreshKinds ==
    {"CapabilityExpired", "CapabilityExhausted", "BudgetExhausted", "InvalidSignature"}

\* C24: when the destroy of an iteration returns a failure of kind
\* CapabilityExpired, CapabilityExhausted, BudgetExhausted or InvalidSignature
\* (by the result it returns, or by the table row of the message), the same
\* iteration clears the cache and leaves running true; the next getCapability
\* finds no entry and awaits a POST; and no destroyBlock call is ever made with
\* a capability that was rejected this way.
C24_RejectedCapabilityIsRefetched ==
    [][ /\ (/\ DestroyReturns
            /\ ~result'.success
            /\ \/ ResultKinds(result') \subseteq RefreshKinds
               \/ Thrown' # NULL /\ TableKind(Thrown'.value) \in RefreshKinds) =>
               /\ capabilityCache' = NULL
               /\ invalidated'
               /\ ctx'.running
               /\ ctx'.stats.errors = ctx.stats.errors + 1
               /\ log.nonce \in log'.rejected
        /\ (proc = "mining" /\ mpc = "acquiring" /\ invalidated /\ mpc' # mpc) =>
               /\ mpc' = "fetching"
               /\ dpc' = dpc
        /\ (proc = "mining" /\ mpc = "fetching" /\ mpc' = "destroy") =>
               /\ httpCalls' = httpCalls + 1
               /\ log'.fetched = log.fetched + 1
        /\ (proc = "mining" /\ mpc # "destroy" /\ mpc' = "destroy") =>
               /\ log'.nonce = capabilityCache'.bundle.capability.nonce
               /\ log'.nonce \notin log.rejected ]_vars

C24_Witness ==
    /\ proc = "mining"
    /\ mpc = "destroy"
    /\ log.iterations = 2
    /\ ctx.lastError = "Invalid capability signature"
    /\ ctx.running
    /\ log.rejected # {}
    /\ log.nonce \notin log.rejected
    /\ \A n \in log.rejected : n < log.nonce

\* The kinds of failure that are only counted.
RetryKinds == {"GenericRevert", "Unknown", "FeeTooLow", "InvalidTarget", "NotAuthorized"}

\* C25: when the destroy of an iteration returns a failure of kind
\* GenericRevert, Unknown, FeeTooLow, InvalidTarget or NotAuthorized (by the
\* result it returns and by the table row of the message alike), the iteration
\* adds one to errors, leaves running true, and leaves the cache entry and its
\* remaining budget as they were.
C25_OtherFailuresLeaveTheCache ==
    [][ (/\ DestroyReturns
         /\ ~result'.success
         /\ ResultKinds(result') \subseteq RetryKinds
         /\ Thrown' # NULL => TableKind(Thrown'.value) \in RetryKinds) =>
            /\ ctx'.stats.errors = ctx.stats.errors + 1
            /\ ctx'.running
            /\ capabilityCache' = capabilityCache
            /\ invalidated' = invalidated ]_vars

C27_RefreshesCountTheFetches ==
    ctx # NULL => ctx.stats.capabilityRefreshes = log.fetched

\* C28: an iteration whose destroy returns alreadyDestroyed adds one to
\* blocksAlreadyDestroyed and changes nothing else of the context (errors,
\* blocksDestroyed, the battery estimate, lastError, running); the cache entry
\* stays as it was, and onError is not invoked.
C28_AlreadyDestroyedIsOnlyCounted ==
    [][ (DestroyReturns /\ ~result'.success /\ result'.alreadyDestroyed = Some(TRUE)) =>
            /\ ctx' = [ctx EXCEPT !.stats.blocksAlreadyDestroyed = @ + 1]
            /\ capabilityCache' = capabilityCache
            /\ invalidated' = invalidated
            /\ httpCalls' = httpCalls
            /\ batteryDepleted' = batteryDepleted
            /\ log'.onError = log.onError
            /\ log'.onBatteryDepleted = log.onBatteryDepleted
            /\ log'.outcome = "already" ]_vars

C28_Witness ==
    /\ proc = "mining"
    /\ log.outcome = "already"
    /\ result.alreadyDestroyed = Some(TRUE)
    /\ ctx.stats.blocksAlreadyDestroyed = 1
    /\ ctx.stats.errors = 0
    /\ ctx.lastError = ""
    /\ ctx.running
    /\ capabilityCache # NULL
    /\ log.onError = 0

\* C29: once the context exists, currentBattery goes up only in the step in
\* which the getLicenseStatus of a resync succeeds, and then to the value the
\* chain reports; every other step leaves it as it is or lowers it by one, and
\* a resync that fails leaves it as it is.
C29_OnlyResyncRaisesTheBattery ==
    [][ (ctx # NULL /\ ctx' # NULL) =>
          /\ mpc # "resync" =>
                /\ ctx'.currentBattery \in {ctx.currentBattery, ctx.currentBattery - 1}
                /\ ctx'.maxBattery = ctx.maxBattery
          /\ ctx'.currentBattery > ctx.currentBattery =>
                /\ mpc = "resync"
                /\ log'.resyncFailures = log.resyncFailures
                /\ ctx'.currentBattery \in { s.currentBattery : s \in LicenseStatuses }
          /\ (mpc = "resync" /\ log'.resyncFailures # log.resyncFailures) =>
                ctx'.currentBattery = ctx.currentBattery ]_vars

C29_Witness ==
    /\ proc = "mining"
    /\ mpc # "resync"
    /\ validation.status.currentBattery = 1
    /\ ctx.stats.blocksDestroyed = 25
    /\ log.resyncs = 1
    /\ log.resyncFailures = 0
    /\ ctx.currentBattery = 30

\* C30: when the getLicenseStatus of a resync throws, the iteration stays a
\* success (blocksDestroyed keeps the increment, errors and lastError are as
\* before, onError is not invoked), currentBattery and maxBattery keep the
\* locally decremented values, running stays true and the loop goes on; the
\* next resync comes when blocksDestroyed reaches the next multiple of 25.
C30_FailedResyncIsIgnored ==
    [][ /\ (proc = "mining" /\ mpc = "resync"
            /\ log'.resyncFailures = log.resyncFailures + 1) =>
               /\ ctx' = ctx
               /\ ctx.stats.blocksDestroyed % 25 = 0
               /\ log'.outcome = "success"
               /\ log'.onError = log.onError
               /\ ctx'.running
               /\ proc' = "mining"
               /\ mpc' \in {"balance", "sleep"}
        /\ (proc = "mining" /\ log.resyncFailures > 0) =>
               /\ log'.resyncs = ctx'.stats.blocksDestroyed \div 25
               /\ (log'.resyncs # log.resyncs) =>
                     /\ ctx'.stats.blocksDestroyed = ctx.stats.blocksDestroyed + 1
                     /\ ctx'.stats.blocksDestroyed % 25 = 0 ]_vars

C30_Witness ==
    /\ proc = "mining"
    /\ mpc = "resync"
    /\ log.resyncFailures = 1
    /\ log.resyncs = 2
    /\ ctx.stats.blocksDestroyed = 50
    /\ ctx.stats.errors = 0
    /\ ctx.currentBattery = 0
    /\ ctx.running

-----------------------------------------------------------------------------
(* Further claims about destroyBlock, the loop and startCommand *)

\* C31: when simulateContract succeeded and the receipt has arrived,
\* destroyBlock returns the hash writeContract gave: with success = true and
\* nothing else for a receipt of status success, and with success = false and
\* the error 'Transaction reverted on-chain' for any other status.
C31_ReceiptDecidesTheResult ==
    (dpc = "returned" /\ call.receipt # NULL) =>
        /\ call.simError = NULL
        /\ call.error = NULL
        /\ call.hash # NULL
        /\ call.submitted = 1
        /\ result.txHash = call.hash
        /\ call.receipt = Some("success") =>
              result = DestroyResult(TRUE, call.hash, NULL, NULL)
        /\ call.receipt # Some("success") =>
              result = DestroyResult(FALSE, call.hash,
                                     Some("Transaction reverted on-chain"), NULL)

C31_Witness ==
    /\ dpc = "returned"
    /\ call.receipt = Some("reverted")
    /\ result.success = FALSE
    /\ result.txHash = call.hash
    /\ call.hash # NULL
    /\ result.error = Some("Transaction reverted on-chain")

\* The network and chain operations the process is waiting for.
Outstanding ==
    IF proc = "exited" THEN {}
    ELSE (IF proc = "validating" THEN {"validateMiningSetup reads"} ELSE {})
         \cup (IF proc = "validatingCapability" \/ mpc = "fetching"
               THEN {"fetchCapability"} ELSE {})
         \cup (IF dpc = "simulating" THEN {"simulateContract"} ELSE {})
         \cup (IF dpc = "submitting" THEN {"writeContract"} ELSE {})
         \cup (IF dpc = "waiting" THEN {"waitForTransactionReceipt"} ELSE {})
         \cup (IF mpc = "resync" THEN {"getLicenseStatus"} ELSE {})
         \cup (IF mpc = "balance" THEN {"getBalance"} ELSE {})

\* C32: the process never waits for more than one network or chain operation;
\* a destroyBlock call makes at most one simulation, one submission and one
\* receipt wait; and destroyBlock is called again only after the call before
\* has returned its result.
C32_OneOperationAtATime ==
    [][ /\ Cardinality(Outstanding) <= 1
        /\ Cardinality(Outstanding') <= 1
        /\ call'.simulated <= 1 /\ call'.submitted <= 1 /\ call'.awaited <= 1
        /\ dpc' \in {"simulating", "submitting", "waiting"} => mpc' = "destroy"
        /\ destroys' # destroys =>
              /\ destroys' = destroys + 1
              /\ dpc \in {"idle", "returned"}
              /\ destroys > 0 => (dpc = "returned" /\ result # NULL) ]_vars

C32_Witness ==
    /\ proc = "mining"
    /\ destroys = 2
    /\ log.iterations = 2
    /\ dpc = "submitting"
    /\ Outstanding = {"writeContract"}

\* C33: once running is false in a session (set by the depletion branch of
\* mineOnce or by stopMining), it stays false, no iteration starts, and
\* neither getCapability nor destroyBlock is called again; and a process that
\* has ended after the loop began has running false.
C33_StoppedIsTerminal ==
    [][ /\ (ctx # NULL /\ ~ctx.running) =>
               /\ ~ctx'.running
               /\ log'.iterations = log.iterations
               /\ httpCalls' = httpCalls
               /\ charged' = charged
               /\ destroys' = destroys
               /\ mpc' \notin {"acquiring", "fetching", "destroy"} \/ mpc' = mpc
        /\ (ctx' # NULL /\ proc' = "exited" /\ exit'.code = 0) => ~ctx'.running ]_vars

C33_Witness ==
    /\ proc = "exited"
    /\ exit.by = "signal"
    /\ ~ctx.running
    /\ dpc = "waiting"
    /\ log.report = "stopped"
    /\ destroys = 1

\* C34: every iteration but the first starts when a sleep of MINE_DELAY_MS =
\* 100 ms that began at the end of the iteration before is over: the delays
\* add up to 100 ms for each iteration that has ended in the loop, and
\* destroyBlock has been called at most once more than the loop has slept.
C34_DelayBetweenIterations ==
    [][ (proc = "mining" /\ proc' = "mining") =>
          /\ log'.iterations # log.iterations =>
                /\ log'.iterations = log.iterations + 1
                /\ (log.iterations = 0 /\ mpc = "top") \/ mpc = "sleep"
                /\ log.slept = 100 * log.iterations
          /\ mpc' = "sleep" => log'.slept = 100 * log'.iterations
          /\ (mpc # "sleep" /\ mpc' = "sleep") => log'.slept = log.slept + 100
          /\ destroys' <= log'.slept \div 100 + 1 ]_vars

C34_Witness ==
    /\ proc = "mining"
    /\ log.iterations = 2
    /\ log.slept = 100
    /\ destroys = 2
    /\ dpc = "simulating"

\* C35: from the creation of the context on, no step lowers blocksDestroyed,
\* blocksAlreadyDestroyed, errors or capabilityRefreshes, each step raises each
\* of them by one at most, and startTime stays what createInitialStats set.
C35_CountersNeverDecrease ==
    [][ (ctx # NULL /\ ctx' # NULL) =>
          /\ ctx'.stats.blocksDestroyed - ctx.stats.blocksDestroyed \in {0, 1}
          /\ ctx'.stats.blocksAlreadyDestroyed - ctx.stats.blocksAlreadyDestroyed \in {0, 1}
          /\ ctx'.stats.errors - ctx.stats.errors \in {0, 1}
          /\ ctx'.stats.capabilityRefreshes - ctx.stats.capabilityRefreshes \in {0, 1}
          /\ ctx'.stats.startTime = ctx.stats.startTime
          /\ ctx'.stats.startTime = StartClock ]_vars

C35_Witness ==
    /\ ctx # NULL
    /\ ctx.stats.errors = 1
    /\ ctx.stats.blocksDestroyed = 1
    /\ ctx.stats.capabilityRefreshes = 2
    /\ ctx.stats.startTime = StartClock
    /\ log.iterations = 2
    /\ log.outcome = "success"

\* C36: when an iteration has ended, it has added one to exactly one of
\* blocksDestroyed, blocksAlreadyDestroyed and errors, so that during the
\* sleep their sum is the number of iterations, also in a session whose
\* context has callbacks that throw.
C36_OneCountPerIteration ==
    (proc = "mining" /\ mpc = "sleep") =>
        ctx.stats.blocksDestroyed + ctx.stats.blocksAlreadyDestroyed + ctx.stats.errors
            = log.iterations

\* C37: when the endpoint answers the POST of getCapability with a status that
\* is not a success, getCapability fails with an error whose message holds the
\* status code and the body of the answer, and the cache entry (capability
\* and remainingBudget) is the one from before the call.
C37_FailedFetchLeavesTheCache ==
    [][\A c \in Costs :
         (AcquireStep(c) /\ ~last'.ok) =>
            /\ last'.fetches = 1
            /\ \E e \in HttpErrors :
                  /\ last'.ret.error =
                        "Identity validation failed: " \o ToString(e.status) \o " - " \o e.body
                  /\ includes(last'.ret.error, ToString(e.status))
                  /\ includes(last'.ret.error, e.body)
            /\ capabilityCache' = capabilityCache
      ]_vars

C37_Witness ==
    /\ last.op = "getCapability"
    /\ ~last.ok
    /\ last.cost = 2
    /\ includes(last.ret.error, "403")
    /\ includes(last.ret.error, "capability quota exceeded")
    /\ capabilityCache # NULL
    /\ capabilityCache.remainingBudget = 1
    /\ capabilityCache.bundle.capability.nonce = 1

\* C38: at most one mining loop runs per PID-file directory: a start command
\* run while a miner is alive, or while another start is still validating,
\* never leads to two processes that both run the loop.
C38_OneLoopPerDirectory ==
    ~(proc = "mining" /\ ctx.running /\ other = "running")

\* C39 as stated: validateMiningSetup leaves the cache empty, so the first
\* iteration makes the POST (the second of the session) and, when it has
\* ended, one capability refresh is counted.
C39_FirstIterationCountsARefresh ==
    /\ (proc = "mining" /\ log.iterations = 0) => capabilityCache = NULL
    /\ (proc = "mining" /\ log.iterations = 1 /\ mpc = "sleep") =>
            /\ httpCalls = 2
            /\ ctx.stats.capabilityRefreshes = 1

\* C39, amended: validateMiningSetup leaves the cache empty, so the first
\* iteration finds no entry, expects a refresh and makes the POST (the second
\* of the session); the refresh is counted when that POST succeeds, and when
\* it fails the iteration ends with an error counted and no refresh.
C39_FirstIterationFetches ==
    /\ (proc = "mining" /\ log.iterations = 0) => capabilityCache = NULL
    /\ (proc = "mining" /\ log.iterations = 1 /\ mpc = "acquiring") =>
            /\ capabilityCache = NULL
            /\ wasRefresh
            /\ httpCalls = 1
    /\ (proc = "mining" /\ log.iterations = 1 /\ mpc \in {"caught", "destroy", "resync", "balance", "sleep"}) =>
            /\ httpCalls = 2
            /\ log.fetched = 1 => ctx.stats.capabilityRefreshes = 1
    /\ (proc = "mining" /\ log.iterations = 1 /\ mpc = "sleep" /\ log.fetched = 0) =>
            /\ ctx.stats.capabilityRefreshes = 0
            /\ ctx.stats.errors = 1
            /\ includes(ctx.lastError, "Identity validation failed")

C39_Witness ==
    /\ proc = "mining"
    /\ log.iterations = 1
    /\ mpc = "destroy"
    /\ httpCalls = 2
    /\ log.fetched = 1
    /\ ctx.stats.capabilityRefreshes = 1

\* C40: when fetchNetworkConfig has accepted the network config (and the
\* chain reports balance, authorization and battery, and the capability
\* endpoint answers), the start command reaches Running: validateMiningSetup
\* returns valid and startMining is entered.
C40_AcceptedConfigReachesRunning ==
    (proc = "fetchedNetwork") ~> (proc = "mining")

====
